---- MODULE Spec2Model ----
(***************************************************************************)
(* A model of the quotation system's two engines:                          *)
(*   - the spreadsheet-backed persistence layer (ExcelService and the      *)
(*     company / product stores built on it), and                          *)
(*   - the PDF rasterisation pipeline (PDFService.generatePDF).            *)
(*                                                                         *)
(* Abstractions.  Every table keeps one column of each kind of field the   *)
(* source has (id, text, number, yes/no token, serialised blob); the       *)
(* Chinese header texts are written with their English field names.  A     *)
(* worksheet is modelled by its array-of-arrays form, which is what        *)
(* XLSX.utils.sheet_to_json(ws, {header: 1}) returns and what              *)
(* XLSX.utils.aoa_to_sheet consumes: data[1] is the header row.            *)
(***************************************************************************)
EXTENDS Integers, Sequences, FiniteSets, TLC

VARIABLES
    localStorage,     \* [user id -> backing value]: the key quotation_system_data:<uid>
    qs_current_user,  \* the localStorage entry 'qs_current_user'
    companies,        \* useCompanyStore: the in-memory companies list
    currentCompany,   \* useCompanyStore: the selected company, or null
    products,         \* useProductStore: the in-memory products list
    storeOp,          \* the store operation that is running, with its loop position
    calls,            \* the ExcelService calls issued, each split at its awaits
    microtasks,       \* the microtask queue: the calls whose await has settled
    pdf,              \* the generatePDF calls, one record per call
    body,             \* the iframes attached to document.body
    page,             \* QuotationCreate: the form and the selected items
    html,             \* the quotation document composed last
    origin,           \* history: how the backing value of each user came to be
    lastSaved,        \* history: the record last upserted, per table and id
    lastOp,           \* history: the operation that completed last, and its outcome
    opCount           \* number of operations issued so far

vars == <<localStorage, qs_current_user, companies, currentCompany, products, storeOp,
          calls, microtasks, pdf, body, page, html, origin, lastSaved, lastOp, opCount>>

-----------------------------------------------------------------------------
(* Bounds of the model. *)

MaxOps == 3
MaxCalls == 2
MaxPdfCalls == 3

-----------------------------------------------------------------------------
(* JavaScript values and worksheet cells.  A cell and a JS scalar are      *)
(* tagged: "s" string, "n" number, "nan" NaN, "jo"/"ja" a string holding   *)
(* the JSON text of an object / of an array, "z" undefined (no cell).      *)

Str(s) == [t |-> "s", v |-> s]
Num(n) == [t |-> "n", v |-> n]
NaN == [t |-> "nan", v |-> ""]
JsonObj(o) == [t |-> "jo", v |-> o]
JsonArr(a) == [t |-> "ja", v |-> a]
Undefined == [t |-> "z", v |-> ""]

\* null, as the currentCompany of the company store before a company is selected
Null == [t |-> "null", v |-> ""]

YES == Str("yes")
NO == Str("no")

\* x === y on scalars
StrictEq(x, y) == x.t = y.t /\ x.v = y.v

\* JavaScript falsiness of a cell value: undefined, '', 0, NaN
Falsy(x) ==
    \/ x.t = "z"
    \/ x.t = "nan"
    \/ (x.t = "s" /\ x.v = "")
    \/ (x.t = "n" /\ x.v = 0)

\* x || d
OrElse(x, d) == IF Falsy(x) THEN d ELSE x

\* The decimal texts the model uses, and the numbers they denote.
NumeralOf == ("0" :> 0) @@ ("1" :> 1) @@ ("2" :> 2) @@ ("5" :> 5) @@ ("10" :> 10)

NumeralText(n) ==
    IF \E s \in DOMAIN NumeralOf : NumeralOf[s] = n
    THEN CHOOSE s \in DOMAIN NumeralOf : NumeralOf[s] = n
    ELSE "?"

\* String(x)
String(x) ==
    CASE x.t = "n" -> Str(NumeralText(x.v))
      [] x.t = "nan" -> Str("NaN")
      [] x.t = "z" -> Str("undefined")
      [] OTHER -> x

\* Number(x) and parseFloat(x) agree on the values the model uses: a number
\* stays, a decimal text is read, any other text is NaN.
Number(x) ==
    CASE x.t = "n" -> x
      [] x.t = "s" /\ x.v \in DOMAIN NumeralOf -> Num(NumeralOf[x.v])
      [] x.t = "s" /\ x.v = "" -> Num(0)
      [] OTHER -> NaN

parseFloat(x) ==
    CASE x.t = "n" -> x
      [] x.t = "s" /\ x.v \in DOMAIN NumeralOf -> Num(NumeralOf[x.v])
      [] OTHER -> NaN

-----------------------------------------------------------------------------
(* Rows and worksheets. *)

\* row[i] with a 0-based JavaScript index: undefined outside the array
At(row, i) == IF i + 1 \in 1..Len(row) THEN row[i + 1] ELSE Undefined

\* headers.indexOf(name): 0-based, -1 when absent
IndexOf(headers, name) ==
    IF \E i \in 1..Len(headers) : StrictEq(headers[i], Str(name))
    THEN (CHOOSE i \in 1..Len(headers) :
            /\ StrictEq(headers[i], Str(name))
            /\ \A j \in 1..(i - 1) : ~StrictEq(headers[j], Str(name))) - 1
    ELSE -1

\* A row as it comes back from a worksheet: cells that hold undefined are
\* never created, so an array ends at its last defined cell.
RECURSIVE TrimRow(_)
TrimRow(row) ==
    IF Len(row) = 0 THEN row
    ELSE IF row[Len(row)].t = "z" THEN TrimRow(SubSeq(row, 1, Len(row) - 1))
    ELSE row

\* XLSX.utils.aoa_to_sheet followed by sheet_to_json(ws, {header: 1})
aoa_to_sheet(data) == [i \in 1..Len(data) |-> TrimRow(data[i])]

-----------------------------------------------------------------------------
(* The canonical headers. *)

getCompanyHeaders == <<Str("ID"), Str("name"), Str("isDefault")>>
getProductHeaders ==
    <<Str("ID"), Str("minPrice"), Str("specifications"), Str("isActive"), Str("images")>>
getCustomerHeaders == <<Str("ID"), Str("name")>>
getQuotationHeaders ==
    <<Str("ID"), Str("companyId"), Str("customerId"), Str("taxRate"), Str("status")>>
getQuotationItemHeaders == <<Str("ID"), Str("quotationId"), Str("productId"), Str("quantity")>>
getTemplateHeaders == <<Str("ID"), Str("name"), Str("isDefault")>>

SheetOrder == <<"Company", "Product", "Customer", "Quotation", "QuotationItem", "Template">>
AllSheets == {SheetOrder[i] : i \in 1..Len(SheetOrder)}

HeadersOf(name) ==
    CASE name = "Company" -> getCompanyHeaders
      [] name = "Product" -> getProductHeaders
      [] name = "Customer" -> getCustomerHeaders
      [] name = "Quotation" -> getQuotationHeaders
      [] name = "QuotationItem" -> getQuotationItemHeaders
      [] OTHER -> getTemplateHeaders

\* A workbook: SheetNames (what XLSX.write serialises) and the Sheets object.
\* A sheet a save adds to Sheets without adding its name to SheetNames is held
\* in memory only.
NoSheet == << >>

BookOf(names) ==
    [SheetNames |-> names,
     Sheets |-> [n \in AllSheets |-> IF n \in names THEN <<HeadersOf(n)>> ELSE NoSheet],
     Has |-> [n \in AllSheets |-> n \in names]]

\* The workbook initializeExcelFile builds.
FreshWorkbook == BookOf(AllSheets)

\* XLSX.write followed by XLSX.read: only the sheets named in SheetNames exist.
XLSXRoundTrip(wb) ==
    [SheetNames |-> wb.SheetNames,
     Sheets |-> [n \in AllSheets |-> IF n \in wb.SheetNames THEN wb.Sheets[n] ELSE NoSheet],
     Has |-> [n \in AllSheets |-> n \in wb.SheetNames]]

\* workbook.Sheets[name] = aoa_to_sheet(data)
SetSheet(wb, name, data) ==
    [wb EXCEPT !.Sheets[name] = aoa_to_sheet(data), !.Has[name] = TRUE]

-----------------------------------------------------------------------------
(* Records of the application (the TypeScript interfaces). *)

Arr(a) == [t |-> "arr", v |-> a]
Obj(o) == [t |-> "obj", v |-> o]

\* JSON.stringify of an object / an array: a string cell holding its text
StringifyObj(o) == JsonObj(o)
StringifyArr(a) == JsonArr(a)

\* JSON.parse: [ok |-> FALSE] stands for the SyntaxError it throws
JSONParse(x) ==
    CASE x.t = "ja" -> [ok |-> TRUE, value |-> Arr(x.v)]
      [] x.t = "jo" -> [ok |-> TRUE, value |-> Obj(x.v)]
      [] x.t = "n" -> [ok |-> TRUE, value |-> x]
      [] x.t = "s" /\ x.v \in DOMAIN NumeralOf -> [ok |-> TRUE, value |-> Num(NumeralOf[x.v])]
      [] OTHER -> [ok |-> FALSE, value |-> Undefined]

\* if (data.length <= 1) return []; for (let i = 1; i < data.length; i++) data[i]
DataRows(data) == IF Len(data) <= 1 THEN << >> ELSE SubSeq(data, 2, Len(data))

\* The index (1-based, in data) of the first row after the header whose first
\* cell is id; 0 when there is none.  (existingIndex, with -1 as 0.)
ExistingIndex(data, id) ==
    IF \E i \in 2..Len(data) : StrictEq(At(data[i], 0), id)
    THEN CHOOSE i \in 2..Len(data) :
            /\ StrictEq(At(data[i], 0), id)
            /\ \A j \in 2..(i - 1) : ~StrictEq(At(data[j], 0), id)
    ELSE 0

\* (mutant) the row of an existing id is taken out and the new row appended
UpsertRowMovingLast(data, id, row) ==
    LET k == ExistingIndex(data, id)
    IN IF k > 0 THEN Append(SubSeq(data, 1, k - 1) \o SubSeq(data, k + 1, Len(data)), row)
       ELSE Append(data, row)

\* if (existingIndex >= 0) data[existingIndex] = row; else data.push(row)
UpsertRow(data, id, row) ==
    LET k == ExistingIndex(data, id)
    IN IF k > 0 THEN [data EXCEPT ![k] = row] ELSE Append(data, row)

\* let worksheet = workbook.Sheets[name]; if (!worksheet) worksheet = aoa_to_sheet([headers])
SheetData(wb, name) == IF wb.Has[name] THEN wb.Sheets[name] ELSE <<HeadersOf(name)>>

YesNo(b) == IF b THEN YES ELSE NO

(* Company *)

CompanyRowData(company) == <<company.id, company.name, YesNo(company.isDefault)>>

DecodeCompany(headers, row) ==
    [id |-> OrElse(At(row, IndexOf(headers, "ID")), Str("")),
     name |-> OrElse(At(row, IndexOf(headers, "name")), Str("")),
     isDefault |-> StrictEq(At(row, IndexOf(headers, "isDefault")), YES)]

getCompaniesOf(wb) ==
    IF ~wb.Has["Company"] THEN << >>
    ELSE LET data == wb.Sheets["Company"]
         IN [i \in 1..Len(DataRows(data)) |-> DecodeCompany(data[1], DataRows(data)[i])]

saveCompanyTo(wb, company) ==
    SetSheet(wb, "Company",
             UpsertRow(SheetData(wb, "Company"), company.id, CompanyRowData(company)))

(* Product *)

ProductRowData(product) ==
    <<product.id, product.minPrice, StringifyObj(product.specifications),
      YesNo(product.isActive),
      StringifyArr(IF product.images.t = "arr" THEN product.images.v ELSE << >>)>>

\* try { product.images = JSON.parse(row[imagesCell] || '[]') } catch { product.images = [] }
DecodeImages(headers, row) ==
    LET imagesCell == IndexOf(headers, "images")
        parsed == JSONParse(OrElse(At(row, imagesCell), JsonArr(<< >>)))
    IN IF imagesCell < 0 THEN Undefined
       ELSE IF parsed.ok THEN parsed.value ELSE Arr(<< >>)

DecodeProduct(headers, row) ==
    [id |-> OrElse(At(row, IndexOf(headers, "ID")), Str("")),
     minPrice |-> parseFloat(OrElse(At(row, IndexOf(headers, "minPrice")), Str("0"))),
     specifications |-> << >>,
     isActive |-> StrictEq(At(row, IndexOf(headers, "isActive")), YES),
     images |-> DecodeImages(headers, row)]

getProductsOf(wb) ==
    IF ~wb.Has["Product"] THEN << >>
    ELSE LET data == wb.Sheets["Product"]
         IN [i \in 1..Len(DataRows(data)) |-> DecodeProduct(data[1], DataRows(data)[i])]

saveProductTo(wb, product) ==
    SetSheet(wb, "Product",
             UpsertRow(SheetData(wb, "Product"), product.id, ProductRowData(product)))

(* Customer *)

CustomerRowData(customer) == <<customer.id, customer.name>>

DecodeCustomer(headers, row) ==
    [id |-> String(OrElse(At(row, IndexOf(headers, "ID")), Str(""))),
     name |-> String(OrElse(At(row, IndexOf(headers, "name")), Str("")))]

\* The customers whose ID cell is customerId, in row order; getCustomerById
\* returns the first of them, or null when there is none.
CustomersById(wb, customerId) ==
    IF ~wb.Has["Customer"] THEN << >>
    ELSE LET data == wb.Sheets["Customer"]
             Match(row) == StrictEq(At(row, IndexOf(data[1], "ID")), customerId)
             hit == SelectSeq(DataRows(data), Match)
         IN [i \in 1..Len(hit) |-> DecodeCustomer(data[1], hit[i])]

saveCustomerTo(wb, customer) ==
    SetSheet(wb, "Customer",
             UpsertRow(SheetData(wb, "Customer"), customer.id, CustomerRowData(customer)))

(* Quotation and QuotationItem *)

QuotationRowData(quotation) ==
    <<quotation.id, quotation.companyId, quotation.customerId, quotation.taxRate,
      quotation.status>>

ItemRowData(quotation, item) == <<item.id, quotation.id, item.productId, item.quantity>>

DecodeQuotation(headers, row) ==
    [id |-> String(OrElse(At(row, IndexOf(headers, "ID")), Str(""))),
     companyId |-> String(OrElse(At(row, IndexOf(headers, "companyId")), Str(""))),
     customerId |-> String(OrElse(At(row, IndexOf(headers, "customerId")), Str(""))),
     taxRate |-> Number(OrElse(At(row, IndexOf(headers, "taxRate")), Num(0))),
     status |-> String(OrElse(At(row, IndexOf(headers, "status")), Str("draft"))),
     items |-> << >>]

getQuotationsOf(wb) ==
    IF ~wb.Has["Quotation"] THEN << >>
    ELSE LET data == wb.Sheets["Quotation"]
         IN [i \in 1..Len(DataRows(data)) |-> DecodeQuotation(data[1], DataRows(data)[i])]

DecodeItem(headers, row) ==
    [id |-> String(OrElse(At(row, IndexOf(headers, "ID")), Str(""))),
     productId |-> String(OrElse(At(row, IndexOf(headers, "productId")), Str(""))),
     quantity |-> Number(OrElse(At(row, IndexOf(headers, "quantity")), Num(0)))]

\* if (String(row[idxQuotationId]) !== quotationId) continue
getQuotationItemsOf(wb, quotationId) ==
    IF ~wb.Has["QuotationItem"] THEN << >>
    ELSE LET data == wb.Sheets["QuotationItem"]
             Match(row) ==
                 StrictEq(String(At(row, IndexOf(data[1], "quotationId"))), quotationId)
             hit == SelectSeq(DataRows(data), Match)
         IN [i \in 1..Len(hit) |-> DecodeItem(data[1], hit[i])]

\* (mutant) the old item rows of the quotation are kept: items become a union
KeptItemRowsUnion(dataItems, quotation) == dataItems

\* (mutant) only the header is kept: the items of every quotation are dropped
KeptItemRowsHeaderOnly(dataItems, quotation) == <<dataItems[1]>>

\* The item rows saveQuotation keeps: the header and the rows of other quotations.
KeptItemRows(dataItems, quotation) ==
    LET idxQuotationId == IndexOf(dataItems[1], "quotationId")
        Other(row) == ~StrictEq(String(At(row, idxQuotationId)), quotation.id)
    IN <<dataItems[1]>> \o SelectSeq(SubSeq(dataItems, 2, Len(dataItems)), Other)

\* (mutant) the workbook as it is after the row upsert, before the item rows
\* are replaced
saveQuotationToRowOnly(wb, quotation) ==
    SetSheet(wb, "Quotation",
             UpsertRow(SheetData(wb, "Quotation"), quotation.id, QuotationRowData(quotation)))

saveQuotationTo(wb, quotation) ==
    LET dataQ == UpsertRow(SheetData(wb, "Quotation"), quotation.id,
                           QuotationRowData(quotation))
        wbQ == SetSheet(wb, "Quotation", dataQ)
        dataItems == SheetData(wbQ, "QuotationItem")
        kept == KeptItemRows(dataItems, quotation) \o
                    [i \in 1..Len(quotation.items) |-> ItemRowData(quotation, quotation.items[i])]
    IN SetSheet(wbQ, "QuotationItem", kept)

-----------------------------------------------------------------------------
(* The backing store: one value per user id. *)

Users == {"default", "u2"}

NoBook == BookOf({})

Absent == [kind |-> "absent", wb |-> NoBook]       \* getItem returns null
Corrupt == [kind |-> "corrupt", wb |-> NoBook]     \* a text XLSX.read throws on
Blob(wb) == [kind |-> "blob", wb |-> wb]           \* a legacy 'blob:' URL
Stored(wb) == [kind |-> "xlsx", wb |-> wb]         \* the base64 text of a workbook

\* localStorage.getItem('qs_current_user') || 'default'
getUserKey(user) == IF user = "" THEN "default" ELSE user

\* localStorage.setItem(this.getUserKey(), XLSX.write(workbook))
initializeExcelFile(ls, user) ==
    [ls EXCEPT ![getUserKey(user)] = Stored(FreshWorkbook)]

\* (mutant) an unparseable value is re-initialised like an absent one
ReadBeginReinitialising(ls, user) ==
    LET stored == ls[getUserKey(user)]
    IN CASE stored.kind \in {"absent", "corrupt"} ->
              [waiting |-> FALSE, ok |-> TRUE, wb |-> FreshWorkbook,
               ls |-> initializeExcelFile(ls, user)]
         [] stored.kind = "blob" ->
              [waiting |-> TRUE, ok |-> TRUE, wb |-> stored.wb, ls |-> ls]
         [] OTHER ->
              [waiting |-> FALSE, ok |-> TRUE, wb |-> stored.wb, ls |-> ls]

\* readFromLocalStorage up to its first suspension on real I/O.  waiting: the
\* call sits in `await fetch(stored)`; ok = FALSE: it returned null.
ReadBegin(ls, user) ==
    LET stored == ls[getUserKey(user)]
    IN CASE stored.kind = "absent" ->
              [waiting |-> FALSE, ok |-> TRUE, wb |-> FreshWorkbook,
               ls |-> initializeExcelFile(ls, user)]
         [] stored.kind = "blob" ->
              [waiting |-> TRUE, ok |-> TRUE, wb |-> stored.wb, ls |-> ls]
         [] stored.kind = "corrupt" ->
              [waiting |-> FALSE, ok |-> FALSE, wb |-> NoBook, ls |-> ls]
         [] OTHER ->
              [waiting |-> FALSE, ok |-> TRUE, wb |-> stored.wb, ls |-> ls]

\* readFromLocalStorage after the fetch of the blob URL settled: the fetched
\* workbook, or (the URL is stale) a re-initialised one, read back under the
\* user id that is current by then.
ReadEnd(ls, user, fetched, fetchOk) ==
    IF fetchOk THEN [ok |-> TRUE, wb |-> fetched, ls |-> ls]
    ELSE LET ls1 == initializeExcelFile(ls, user)
         IN [ok |-> TRUE, wb |-> ls1[getUserKey(user)].wb, ls |-> ls1]

\* readFromLocalStorage run without interruption
readFromLocalStorage(ls, user, fetchOk) ==
    LET b == ReadBegin(ls, user)
    IN IF b.waiting THEN ReadEnd(b.ls, user, b.wb, fetchOk)
       ELSE [ok |-> b.ok, wb |-> b.wb, ls |-> b.ls]

\* (mutant) a persist that merges the rows of the stored workbook it replaces
saveToLocalStorageMerging(ls, user, wb) ==
    LET cur == ls[getUserKey(user)]
        new == XLSXRoundTrip(wb)
        Extra(n) == LET NotIn(row) == ExistingIndex(new.Sheets[n], At(row, 0)) = 0
                    IN SelectSeq(DataRows(cur.wb.Sheets[n]), NotIn)
        merged == [new EXCEPT !.Sheets =
                      [n \in AllSheets |->
                          IF new.Has[n] /\ cur.wb.Has[n]
                          THEN new.Sheets[n] \o Extra(n) ELSE new.Sheets[n]]]
    IN [ls EXCEPT ![getUserKey(user)] = Stored(IF cur.kind = "xlsx" THEN merged ELSE new)]

\* saveToLocalStorage: the whole workbook replaces the value of the current key
saveToLocalStorage(ls, user, wb) ==
    [ls EXCEPT ![getUserKey(user)] = Stored(XLSXRoundTrip(wb))]

\* (mutant) a persist that throws after a truncated text reached the store
saveToLocalStorageTruncating(ls, user, wb) ==
    [ls EXCEPT ![getUserKey(user)] = Corrupt]

\* saveToLocalStorage when XLSX.write or setItem throws: the catch logs and
\* rethrows, nothing has been stored
saveToLocalStorageThrowing(ls, user, wb) == ls

\* The workbook a read of the current scope returns now, without its side effect.
BookNow == readFromLocalStorage(localStorage, qs_current_user, FALSE)

-----------------------------------------------------------------------------
(* Inputs. *)

CompanyIds == {"c1", "c2"}
CompanyInputs ==
    {[id |-> Str(i), name |-> Str("Acme"), isDefault |-> d] : i \in CompanyIds, d \in BOOLEAN}

NoSpecifications == << >>
SomeSpecifications == << <<"power", "5W">> >>

ProductIds == {"p1", "p2"}
ProductInputs ==
    {[id |-> Str(i), minPrice |-> Num(5), specifications |-> sp, isActive |-> TRUE,
      images |-> Arr(<<"img1">>)] : i \in ProductIds, sp \in {NoSpecifications, SomeSpecifications}}

CustomerInputs == {[id |-> Str("k1"), name |-> Str(n)] : n \in {"Ann", "Bob"}}

Item(i) == [id |-> Str(i), productId |-> Str("p1"), quantity |-> Num(2)]
ItemLists == {<< >>, <<Item("i1"), Item("i2")>>, <<Item("i2"), Item("i1")>>, <<Item("i3")>>}
QuotationIds == {"q1", "q2"}
QuotationInputs ==
    {[id |-> Str(i), companyId |-> Str("c1"), customerId |-> Str("k1"),
      taxRate |-> Num(10), status |-> Str(st), items |-> its] :
        i \in QuotationIds, st \in {"draft", "sent"}, its \in ItemLists}

\* The uploaded workbooks: with all tables, with the three required ones only,
\* with some of the required ones missing, and one that carries a Company row.
requiredSheets == <<"Company", "Product", "Customer">>

ImportedCompany == [id |-> Str("c9"), name |-> Str("Imported"), isDefault |-> TRUE]

ImportFiles ==
    {BookOf(AllSheets), BookOf({"Company", "Product", "Customer"}),
     BookOf({"Company", "Product", "Quotation"}), BookOf({"Product"}), BookOf({}),
     saveCompanyTo(BookOf(AllSheets), ImportedCompany)}

-----------------------------------------------------------------------------
(* History variables. *)

NoOp ==
    [op |-> "none", arg |-> Str(""), status |-> "none", missing |-> << >>,
     before |-> [u \in Users |-> Absent], user |-> ""]

Completed(op, arg, status, missing) ==
    [op |-> op, arg |-> arg, status |-> status, missing |-> missing,
     before |-> localStorage, user |-> qs_current_user]

NothingSaved ==
    [Company |-> << >>, Product |-> << >>, Customer |-> << >>, Quotation |-> << >>]

Put(f, k, v) == [x \in (DOMAIN f) \cup {k} |-> IF x = k THEN v ELSE f[x]]

Remember(table, record) ==
    [lastSaved EXCEPT ![table] = Put(lastSaved[table], record.id.v, record)]

\* QuotationCreate as it mounts: step 0, no item selected, the form empty;
\* HistoryPage as it mounts: an empty list; CompanyManagement as it mounts: the
\* modal closed, no company being edited
PageInitial ==
    [currentStep |-> 0, selectedItems |-> << >>, taxRate |-> Undefined,
     companyId |-> Undefined, customerName |-> Undefined, saved |-> 0,
     list |-> << >>, modalVisible |-> FALSE, editingCompany |-> Undefined]

\* No document composed yet
NoDocument == [made |-> FALSE, totals |-> << >>, images |-> << >>]

StoreIdle ==
    [op |-> "idle", arg |-> Str(""), todo |-> << >>, before |-> [u \in Users |-> Absent]]

UIUnchanged ==
    UNCHANGED <<companies, currentCompany, products, storeOp, calls, microtasks, pdf, body, page, html>>

-----------------------------------------------------------------------------
(* ExcelService calls, each run to completion (no other call in flight). *)

\* async saveX(record): read the workbook, upsert, persist; throws when the
\* read returned null ("rejected"), rethrows what the persist threw ("failed").
SaveTo(op, wb, record) ==
    CASE op = "saveCompany" -> saveCompanyTo(wb, record)
      [] op = "saveProduct" -> saveProductTo(wb, record)
      [] op = "saveCustomer" -> saveCustomerTo(wb, record)
      [] OTHER -> saveQuotationTo(wb, record)

ServiceSave(op, table, record) ==
    /\ opCount < MaxOps
    /\ \E fetchOk \in {b \in BOOLEAN : b \/ localStorage[getUserKey(qs_current_user)].kind = "blob"} :
         LET r == readFromLocalStorage(localStorage, qs_current_user, fetchOk)
         IN IF r.ok
            THEN \/ /\ localStorage' = saveToLocalStorage(r.ls, qs_current_user, SaveTo(op, r.wb, record))
                    /\ lastOp' = Completed(op, record, "ok", << >>)
                    /\ lastSaved' = Remember(table, record)
                 \/ /\ localStorage' = saveToLocalStorageThrowing(r.ls, qs_current_user, SaveTo(op, r.wb, record))
                    /\ lastOp' = Completed(op, record, "failed", << >>)
                    /\ lastSaved' = lastSaved
            ELSE /\ localStorage' = r.ls
                 /\ lastOp' = Completed(op, record, "rejected", << >>)
                 /\ lastSaved' = lastSaved
    /\ opCount' = opCount + 1
    /\ UNCHANGED <<qs_current_user, origin>>
    /\ UIUnchanged

SaveCompany == \E company \in CompanyInputs :
    ServiceSave("saveCompany", "Company", company)

SaveProduct == \E product \in ProductInputs :
    ServiceSave("saveProduct", "Product", product)

SaveCustomer == \E customer \in CustomerInputs :
    ServiceSave("saveCustomer", "Customer", customer)

SaveQuotation == \E quotation \in QuotationInputs :
    ServiceSave("saveQuotation", "Quotation", quotation)

\* A list operation (getCompanies, getProducts, getQuotations, ...): its only
\* effect on the state is the one of readFromLocalStorage.
ListRecords ==
    /\ opCount < MaxOps
    /\ \E fetchOk \in {b \in BOOLEAN : b \/ localStorage[getUserKey(qs_current_user)].kind = "blob"} :
         LET r == readFromLocalStorage(localStorage, qs_current_user, fetchOk)
         IN /\ localStorage' = r.ls
            /\ lastOp' = Completed("list", Str(""), IF r.ok THEN "ok" ELSE "null", << >>)
    /\ opCount' = opCount + 1
    /\ UNCHANGED <<qs_current_user, origin, lastSaved>>
    /\ UIUnchanged

\* (mutant) only the first missing table is reported
missingSheetsFirstOnly(workbook) ==
    LET Missing(sheet) == sheet \notin workbook.SheetNames
        all == SelectSeq(requiredSheets, Missing)
    IN IF Len(all) > 1 THEN <<all[1]>> ELSE all

\* requiredSheets.filter(sheet => !availableSheets.includes(sheet))
missingSheets(workbook) ==
    LET Missing(sheet) == sheet \notin workbook.SheetNames
    IN SelectSeq(requiredSheets, Missing)

\* importExcel(file): validate, then saveToLocalStorage(workbook)
ImportExcel ==
    /\ opCount < MaxOps
    /\ \E workbook \in ImportFiles :
         IF Len(missingSheets(workbook)) > 0
         THEN /\ lastOp' = Completed("importExcel", workbook, "rejected", missingSheets(workbook))
              /\ UNCHANGED <<localStorage, origin, lastSaved>>
         ELSE /\ localStorage' = saveToLocalStorage(localStorage, qs_current_user, workbook)
              /\ lastOp' = Completed("importExcel", workbook, "ok", << >>)
              /\ origin' = [origin EXCEPT ![getUserKey(qs_current_user)] = "imported"]
              /\ lastSaved' = NothingSaved
    /\ opCount' = opCount + 1
    /\ UNCHANGED qs_current_user
    /\ UIUnchanged

InitialValues == {Absent, Corrupt, Blob(FreshWorkbook)}

InitRepo ==
    /\ \E v \in InitialValues :
         /\ localStorage = [u \in Users |-> IF u = "default" THEN v ELSE Absent]
         /\ origin = [u \in Users |-> IF u = "default" THEN v.kind ELSE "absent"]
    /\ qs_current_user = ""
    /\ companies = << >>
    /\ currentCompany = Null
    /\ products = << >>
    /\ storeOp = StoreIdle
    /\ calls = << >>
    /\ microtasks = << >>
    /\ pdf = << >>
    /\ body = {}
    /\ page = PageInitial
    /\ html = NoDocument
    /\ lastSaved = NothingSaved
    /\ lastOp = NoOp
    /\ opCount = 0

NextRepo ==
    \/ SaveCompany
    \/ SaveProduct
    \/ SaveCustomer
    \/ SaveQuotation
    \/ ListRecords

SpecRepo == InitRepo /\ [][NextRepo]_vars

NextImport ==
    \/ NextRepo
    \/ ImportExcel

SpecImport == InitRepo /\ [][NextImport]_vars

-----------------------------------------------------------------------------
(* What the list operations return in the current state. *)

CurrentKey == getUserKey(qs_current_user)

getCompanies == IF BookNow.ok THEN getCompaniesOf(BookNow.wb) ELSE << >>
getProducts == IF BookNow.ok THEN getProductsOf(BookNow.wb) ELSE << >>
getQuotations == IF BookNow.ok THEN getQuotationsOf(BookNow.wb) ELSE << >>
getCustomerById(customerId) ==
    IF BookNow.ok THEN CustomersById(BookNow.wb, customerId) ELSE << >>
getQuotationItemsByQuotationId(quotationId) ==
    IF BookNow.ok THEN getQuotationItemsOf(BookNow.wb, quotationId) ELSE << >>

WithId(list, id) == LET Same(r) == StrictEq(r.id, id) IN SelectSeq(list, Same)

\* The records a list operation returns for the id of `record`
Listed(table, record) ==
    CASE table = "Company" -> WithId(getCompanies, record.id)
      [] table = "Product" -> WithId(getProducts, record.id)
      [] table = "Quotation" -> WithId(getQuotations, record.id)
      [] OTHER -> getCustomerById(record.id)

\* getQuotations returns the header of a quotation; its items are read by
\* getQuotationItemsByQuotationId.
AsListed(table, record) ==
    IF table = "Quotation" THEN [record EXCEPT !.items = << >>] ELSE record

SaveOps == {"saveCompany", "saveProduct", "saveCustomer", "saveQuotation"}

-----------------------------------------------------------------------------
(* C1: after saves run one at a time on a workbook that started fresh, every *)
(* upserted record is listed exactly once, with the field values of the most *)
(* recent upsert of its id.                                                  *)
C1_UpsertedListedOnceWithLatestValues ==
    origin[CurrentKey] = "absent" =>
        \A table \in DOMAIN lastSaved :
            \A id \in DOMAIN lastSaved[table] :
                LET R == lastSaved[table][id]
                IN /\ Len(Listed(table, R)) = 1
                   /\ Listed(table, R)[1] = AsListed(table, R)

\* The part of C1 that the code keeps: listed exactly once, and every field but
\* Product.specifications carries the value of the most recent upsert.
UpsertedListedOnceUpToSpecifications ==
    origin[CurrentKey] = "absent" =>
        \A table \in DOMAIN lastSaved :
            \A id \in DOMAIN lastSaved[table] :
                LET R == lastSaved[table][id]
                    expected == IF table = "Product"
                                THEN [R EXCEPT !.specifications = NoSpecifications]
                                ELSE AsListed(table, R)
                IN /\ Len(Listed(table, R)) = 1
                   /\ Listed(table, R)[1] = expected

AllListsEmpty ==
    /\ getCompanies = << >>
    /\ getProducts = << >>
    /\ getQuotations = << >>
    /\ \A q \in QuotationIds : getQuotationItemsByQuotationId(Str(q)) = << >>
    /\ \A c \in CustomerInputs : getCustomerById(c.id) = << >>

KindBefore == lastOp.before[getUserKey(lastOp.user)].kind

C7_ImportRejectedNamingMissing ==
    LET required == {requiredSheets[i] : i \in 1..Len(requiredSheets)}
        named == {lastOp.missing[i] : i \in 1..Len(lastOp.missing)}
    IN (lastOp.op = "importExcel" /\ required \ lastOp.arg.SheetNames # {}) =>
          /\ lastOp.status = "rejected"
          /\ named = required \ lastOp.arg.SheetNames
          /\ localStorage = lastOp.before

\* an import that lacks two required tables was rejected on a workbook with data
C7_Witness ==
    /\ lastOp.op = "importExcel"
    /\ lastOp.status = "rejected"
    /\ Len(lastOp.missing) >= 2
    /\ lastOp.before[CurrentKey].kind = "xlsx"
    /\ getCompanies # << >>

-----------------------------------------------------------------------------
(* The company and product stores.  A store operation that saves a list of   *)
(* records awaits one ExcelService save per record; storeOp holds the        *)
(* records still to save.  One store operation runs at a time.               *)

\* companies.filter(c => c.id !== companyId)
WithoutId(list, id) == LET Other(r) == ~StrictEq(r.id, id) IN SelectSeq(list, Other)

\* (mutant) the chosen company is flagged and no other flag is cleared
DefaultFlagsKeepingOthers(list, companyId) ==
    [i \in 1..Len(list) |->
        [list[i] EXCEPT !.isDefault = list[i].isDefault \/ StrictEq(list[i].id, companyId)]]

\* companies.map(company => ({...company, isDefault: company.id === companyId}))
DefaultFlagsFor(list, companyId) ==
    [i \in 1..Len(list) |-> [list[i] EXCEPT !.isDefault = StrictEq(list[i].id, companyId)]]

StoreUnchanged ==
    UNCHANGED <<qs_current_user, calls, microtasks, pdf, body, page, html, origin>>

\* if (!currentCompany && companies.length > 0)
\*   set({ currentCompany: companies.find(c => c.isDefault) || companies[0] })
CurrentAfterLoad(current, list) ==
    IF current = Null /\ list # << >>
    THEN LET defaults == {i \in 1..Len(list) : list[i].isDefault}
         IN IF defaults = {} THEN list[1]
            ELSE list[CHOOSE i \in defaults : \A j \in defaults : i <= j]
    ELSE current

\* loadCompanies / loadProducts: the list a read of the workbook gives
LoadCompanies ==
    /\ storeOp.op = "idle"
    /\ opCount < MaxOps
    /\ LET r == readFromLocalStorage(localStorage, qs_current_user, FALSE)
       IN /\ localStorage' = r.ls
          /\ companies' = IF r.ok THEN getCompaniesOf(r.wb) ELSE << >>
          /\ currentCompany' = CurrentAfterLoad(currentCompany, companies')
    /\ lastOp' = Completed("loadCompanies", Str(""), "ok", << >>)
    /\ opCount' = opCount + 1
    /\ UNCHANGED <<products, storeOp, lastSaved>>
    /\ StoreUnchanged

LoadProducts ==
    /\ storeOp.op = "idle"
    /\ opCount < MaxOps
    /\ LET r == readFromLocalStorage(localStorage, qs_current_user, FALSE)
       IN /\ localStorage' = r.ls
          /\ products' = IF r.ok THEN getProductsOf(r.wb) ELSE << >>
    /\ lastOp' = Completed("loadProducts", Str(""), "ok", << >>)
    /\ opCount' = opCount + 1
    /\ UNCHANGED <<companies, currentCompany, storeOp, lastSaved>>
    /\ StoreUnchanged

\* store.saveCompany: await excelService.saveCompany(company); await loadCompanies()
StoreSaveCompany ==
    /\ storeOp.op = "idle"
    /\ opCount < MaxOps
    /\ \E company \in CompanyInputs :
         LET r == readFromLocalStorage(localStorage, qs_current_user, FALSE)
             saved == saveToLocalStorage(r.ls, qs_current_user, saveCompanyTo(r.wb, company))
         IN IF r.ok
            THEN \/ /\ localStorage' = saved
                    /\ companies' = getCompaniesOf(saved[getUserKey(qs_current_user)].wb)
                    /\ currentCompany' = CurrentAfterLoad(currentCompany, companies')
                    /\ lastOp' = Completed("saveCompany", company, "ok", << >>)
                    /\ lastSaved' = Remember("Company", company)
                 \/ /\ localStorage' = saveToLocalStorageThrowing(r.ls, qs_current_user, r.wb)
                    /\ lastOp' = Completed("saveCompany", company, "failed", << >>)
                    /\ UNCHANGED <<companies, currentCompany, lastSaved>>
            ELSE /\ localStorage' = r.ls
                 /\ lastOp' = Completed("saveCompany", company, "rejected", << >>)
                 /\ UNCHANGED <<companies, currentCompany, lastSaved>>
    /\ opCount' = opCount + 1
    /\ UNCHANGED <<products, storeOp>>
    /\ StoreUnchanged

StoreSaveProduct ==
    /\ storeOp.op = "idle"
    /\ opCount < MaxOps
    /\ \E product \in ProductInputs :
         LET r == readFromLocalStorage(localStorage, qs_current_user, FALSE)
             saved == saveToLocalStorage(r.ls, qs_current_user, saveProductTo(r.wb, product))
         IN IF r.ok
            THEN \/ /\ localStorage' = saved
                    /\ products' = getProductsOf(saved[getUserKey(qs_current_user)].wb)
                    /\ lastOp' = Completed("saveProduct", product, "ok", << >>)
                    /\ lastSaved' = Remember("Product", product)
                 \/ /\ localStorage' = saveToLocalStorageThrowing(r.ls, qs_current_user, r.wb)
                    /\ lastOp' = Completed("saveProduct", product, "failed", << >>)
                    /\ UNCHANGED <<products, lastSaved>>
            ELSE /\ localStorage' = r.ls
                 /\ lastOp' = Completed("saveProduct", product, "rejected", << >>)
                 /\ UNCHANGED <<products, lastSaved>>
    /\ opCount' = opCount + 1
    /\ UNCHANGED <<companies, currentCompany, storeOp>>
    /\ StoreUnchanged

Begin(op, arg, todo) ==
    /\ storeOp.op = "idle"
    /\ opCount < MaxOps
    /\ storeOp' = [op |-> op, arg |-> arg, todo |-> todo, before |-> localStorage]
    /\ opCount' = opCount + 1
    /\ UNCHANGED <<localStorage, companies, currentCompany, products, lastSaved, lastOp>>
    /\ StoreUnchanged

\* deleteCompany(companyId): the list without the company, each saved in turn
DeleteCompany == \E id \in CompanyIds :
    Begin("deleteCompany", Str(id), WithoutId(companies, Str(id)))

\* setDefaultCompany(companyId): the list with the flags rewritten, each saved in turn
SetDefaultCompany == \E id \in CompanyIds :
    Begin("setDefaultCompany", Str(id), DefaultFlagsFor(companies, Str(id)))

\* deleteProduct(productId)
DeleteProduct == \E id \in ProductIds :
    Begin("deleteProduct", Str(id), WithoutId(products, Str(id)))

StoreSaveOp == IF storeOp.op = "deleteProduct" THEN "saveProduct" ELSE "saveCompany"

\* for (const company of updatedCompanies) await excelService.saveCompany(company)
\* A save that throws (null read: "rejected", persist: "failed") ends the
\* operation in its catch, which rethrows; the saves done so far stay persisted.
SaveNext ==
    /\ storeOp.op # "idle"
    /\ storeOp.todo # << >>
    /\ LET r == readFromLocalStorage(localStorage, qs_current_user, FALSE)
           record == Head(storeOp.todo)
       IN IF r.ok
          THEN \/ /\ localStorage' =
                        saveToLocalStorage(r.ls, qs_current_user, SaveTo(StoreSaveOp, r.wb, record))
                  /\ storeOp' = [storeOp EXCEPT !.todo = Tail(storeOp.todo)]
                  /\ lastOp' = lastOp
               \/ /\ localStorage' =
                        saveToLocalStorageThrowing(r.ls, qs_current_user, SaveTo(StoreSaveOp, r.wb, record))
                  /\ storeOp' = StoreIdle
                  /\ lastOp' = [op |-> storeOp.op, arg |-> storeOp.arg, status |-> "failed",
                                missing |-> << >>, before |-> storeOp.before,
                                user |-> qs_current_user]
          ELSE /\ localStorage' = r.ls
               /\ storeOp' = StoreIdle
               /\ lastOp' = [op |-> storeOp.op, arg |-> storeOp.arg, status |-> "rejected",
                             missing |-> << >>, before |-> storeOp.before,
                             user |-> qs_current_user]
    /\ UNCHANGED <<companies, currentCompany, products, lastSaved, opCount>>
    /\ StoreUnchanged

\* await get().loadCompanies(); set({ loading: false })
Reload ==
    /\ storeOp.op # "idle"
    /\ storeOp.todo = << >>
    /\ LET r == readFromLocalStorage(localStorage, qs_current_user, FALSE)
       IN /\ localStorage' = r.ls
          /\ IF storeOp.op = "deleteProduct"
             THEN /\ products' = IF r.ok THEN getProductsOf(r.wb) ELSE << >>
                  /\ UNCHANGED <<companies, currentCompany>>
             ELSE /\ companies' = IF r.ok THEN getCompaniesOf(r.wb) ELSE << >>
                  /\ currentCompany' = CurrentAfterLoad(currentCompany, companies')
                  /\ products' = products
    /\ lastOp' = [op |-> storeOp.op, arg |-> storeOp.arg, status |-> "ok",
                  missing |-> << >>, before |-> storeOp.before, user |-> qs_current_user]
    /\ storeOp' = StoreIdle
    /\ UNCHANGED <<lastSaved, opCount>>
    /\ StoreUnchanged

InitStore ==
    /\ InitRepo
    /\ localStorage["default"] = Absent

NextStore ==
    \/ LoadCompanies
    \/ LoadProducts
    \/ StoreSaveCompany
    \/ StoreSaveProduct
    \/ DeleteCompany
    \/ SetDefaultCompany
    \/ DeleteProduct
    \/ SaveNext
    \/ Reload

SpecStore == InitStore /\ [][NextStore]_vars

-----------------------------------------------------------------------------
\* The workbook a read of storage `ls` returns for the current scope
BookOfStorage(ls) == readFromLocalStorage(ls, qs_current_user, FALSE).wb

DefaultCount(list) == Cardinality({i \in 1..Len(list) : list[i].isDefault})

\* The store operation `op` was the last to complete and none is running
StoreCompleted(op) ==
    /\ storeOp.op = "idle"
    /\ lastOp.op = op
    /\ lastOp.status = "ok"

(* C2: after deleteCompany(X) (deleteProduct(X)) completes, the list read    *)
(* back from the persisted workbook holds no record with id X, and every     *)
(* other record that was saved before is still there, unchanged.             *)
C2_DeletedRecordIsGone ==
    /\ StoreCompleted("deleteCompany") =>
          /\ WithId(getCompanies, lastOp.arg) = << >>
          /\ getCompanies = WithoutId(getCompaniesOf(BookOfStorage(lastOp.before)), lastOp.arg)
    /\ StoreCompleted("deleteProduct") =>
          /\ WithId(getProducts, lastOp.arg) = << >>
          /\ getProducts = WithoutId(getProductsOf(BookOfStorage(lastOp.before)), lastOp.arg)

(* C3 (as stated): after setDefaultCompany(id) completes, exactly one        *)
(* Company returned by getCompanies has isDefault = true, for any prior      *)
(* configuration of the Company table.                                       *)
C3_ExactlyOneDefaultAfterSetDefault ==
    StoreCompleted("setDefaultCompany") =>
        DefaultCount(getCompanies) = 1

(* C3 (amended): after setDefaultCompany(id) completes, a Company returned   *)
(* by getCompanies has isDefault = true exactly if its id is id: exactly one *)
(* Company is the default when id is the id of a stored Company and none     *)
(* when it is not, for any prior number of defaults.                         *)
C3_DefaultIsExactlyTheChosenCompany ==
    StoreCompleted("setDefaultCompany") =>
        /\ \A i \in 1..Len(getCompanies) :
              getCompanies[i].isDefault <=> StrictEq(getCompanies[i].id, lastOp.arg)
        /\ DefaultCount(getCompanies) =
              IF WithId(getCompanies, lastOp.arg) # << >> THEN 1 ELSE 0
        /\ companies = getCompanies

\* setDefaultCompany completed on a table that held two defaults
C3_Witness ==
    /\ StoreCompleted("setDefaultCompany")
    /\ DefaultCount(getCompaniesOf(BookOfStorage(lastOp.before))) = 2
    /\ DefaultCount(getCompanies) = 1

(* C4: in every persisted state reached by a company-form save or by         *)
(* setDefaultCompany from a state with at most one default, including the    *)
(* states persisted between the saves of a running setDefaultCompany, at     *)
(* most one Company row has isDefault = true.                                *)
C4_AtMostOneDefaultAtAnyTime ==
    /\ (/\ storeOp.op = "setDefaultCompany"
        /\ DefaultCount(getCompaniesOf(BookOfStorage(storeOp.before))) <= 1) =>
          DefaultCount(getCompanies) <= 1
    /\ (/\ storeOp.op = "idle"
        /\ \/ lastOp.op = "setDefaultCompany"
           \/ (lastOp.op = "saveCompany" /\ ~lastOp.arg.isDefault)
        /\ DefaultCount(getCompaniesOf(BookOfStorage(lastOp.before))) <= 1) =>
          DefaultCount(getCompanies) <= 1

-----------------------------------------------------------------------------
(* ExcelService saves in flight together.  A call runs synchronously up to   *)
(* its first await; a continuation runs as a microtask, in the order the     *)
(* awaits settled; a click and the settling of a fetch are tasks of their    *)
(* own, which start when the microtask queue is empty.                       *)

\* A workbook saved by an earlier version of the application
LegacyCompany == [id |-> Str("c1"), name |-> Str("Old"), isDefault |-> FALSE]
LegacyBook == saveCompanyTo(FreshWorkbook, LegacyCompany)

\* The saves issued together: their operation and their record
ConcInputs ==
    {[op |-> "saveCompany", arg |-> [id |-> Str(i), name |-> Str("Acme"), isDefault |-> FALSE]] :
        i \in CompanyIds}
    \cup {[op |-> "saveProduct",
           arg |-> [id |-> Str("p1"), minPrice |-> Num(5), specifications |-> NoSpecifications,
                    isActive |-> TRUE, images |-> Arr(<<"img1">>)]]}
    \cup {[op |-> "saveQuotation",
           arg |-> [id |-> Str("q1"), companyId |-> Str("c1"), customerId |-> Str("k1"),
                    taxRate |-> Num(10), status |-> Str("draft"),
                    items |-> <<Item("i1"), Item("i2")>>]]}

\* A call: where it stands (pc), the key it read, the workbook it read and how
\* it got it (via), the key it wrote, and its place among the starts and the
\* persists (history).
NewCall(input, pc, ok, wb, via) ==
    [op |-> input.op, arg |-> input.arg, pc |-> pc, ok |-> ok, wb |-> wb, via |-> via,
     startKey |-> getUserKey(qs_current_user), wroteKey |-> "",
     persistedAtStart |-> {i \in 1..Len(calls) : calls[i].pc = "done"},
     persistedBefore |-> {}]

ConcUnchanged ==
    UNCHANGED <<companies, currentCompany, products, storeOp, pdf, body, page, html, origin, lastSaved,
                lastOp, opCount>>

\* const workbook = await this.readFromLocalStorage(): the call up to its
\* first suspension
StartCall ==
    /\ Len(calls) < MaxCalls
    /\ \E input \in ConcInputs :
         LET b == ReadBegin(localStorage, qs_current_user)
             absent == localStorage[getUserKey(qs_current_user)].kind = "absent"
             call == CASE b.waiting -> NewCall(input, "fetching", TRUE, b.wb, "blob")
                       [] absent -> NewCall(input, "reread", TRUE, NoBook, "initialised")
                       [] OTHER -> NewCall(input, "ready", b.ok, b.wb, "stored")
         IN /\ calls' = Append(calls, call)
            /\ localStorage' = b.ls
            /\ microtasks' = IF b.waiting THEN microtasks
                             ELSE Append(microtasks, Len(calls) + 1)
    /\ UNCHANGED qs_current_user
    /\ ConcUnchanged

\* The continuation at the head of the microtask queue: the re-read after
\* initializeExcelFile, or the upsert and saveToLocalStorage (the call throws
\* when its read returned null)
RunMicrotask ==
    /\ microtasks # << >>
    /\ LET c == Head(microtasks)
           call == calls[c]
           b == ReadBegin(localStorage, qs_current_user)
       IN CASE call.pc = "reread" ->
                 /\ calls' = [calls EXCEPT ![c].pc = "ready", ![c].ok = b.ok, ![c].wb = b.wb]
                 /\ localStorage' = b.ls
                 /\ microtasks' = Append(Tail(microtasks), c)
            [] call.pc = "ready" /\ call.ok ->
                 /\ calls' = [calls EXCEPT
                        ![c].pc = "done",
                        ![c].wroteKey = getUserKey(qs_current_user),
                        ![c].persistedBefore = {i \in 1..Len(calls) : calls[i].pc = "done"}]
                 /\ localStorage' = saveToLocalStorage(localStorage, qs_current_user,
                                                       SaveTo(call.op, call.wb, call.arg))
                 /\ microtasks' = Tail(microtasks)
            [] OTHER ->
                 /\ calls' = [calls EXCEPT ![c].pc = "rejected"]
                 /\ localStorage' = localStorage
                 /\ microtasks' = Tail(microtasks)
    /\ UNCHANGED qs_current_user
    /\ ConcUnchanged

\* await fetch(stored) settles: the workbook of the blob, or the catch branch
FetchSettles ==
    /\ microtasks = << >>
    /\ \E c \in 1..Len(calls), fetchOk \in BOOLEAN :
         /\ calls[c].pc = "fetching"
         /\ LET r == ReadEnd(localStorage, qs_current_user, calls[c].wb, fetchOk)
            IN /\ calls' = [calls EXCEPT
                      ![c].pc = "ready", ![c].ok = r.ok, ![c].wb = r.wb,
                      ![c].via = IF fetchOk THEN "fetched" ELSE "reinitialised"]
               /\ localStorage' = r.ls
               /\ microtasks' = <<c>>
    /\ UNCHANGED qs_current_user
    /\ ConcUnchanged

\* SettingsPage: localStorage.setItem('qs_current_user', userId || 'default')
SetCurrentUser ==
    /\ microtasks = << >>
    /\ \E userId \in Users :
         /\ userId # qs_current_user
         /\ qs_current_user' = userId
    /\ UNCHANGED <<localStorage, calls, microtasks>>
    /\ ConcUnchanged

ConcInitialValues ==
    {Absent, Corrupt, Blob(FreshWorkbook), Blob(LegacyBook), Stored(LegacyBook)}

InitConc ==
    /\ \E v \in ConcInitialValues :
         /\ localStorage = [u \in Users |-> IF u = "default" THEN v ELSE Stored(LegacyBook)]
         /\ origin = [u \in Users |-> IF u = "default" THEN v.kind ELSE "xlsx"]
    /\ qs_current_user = ""
    /\ companies = << >>
    /\ currentCompany = Null
    /\ products = << >>
    /\ storeOp = StoreIdle
    /\ calls = << >>
    /\ microtasks = << >>
    /\ pdf = << >>
    /\ body = {}
    /\ page = PageInitial
    /\ html = NoDocument
    /\ lastSaved = NothingSaved
    /\ lastOp = NoOp
    /\ opCount = 0

NextConc ==
    \/ StartCall
    \/ RunMicrotask
    \/ FetchSettles
    \/ SetCurrentUser

SpecConc == InitConc /\ [][NextConc]_vars

-----------------------------------------------------------------------------
\* The list operation that reads the table a save writes
ListOf(op, wb) ==
    CASE op = "saveCompany" -> getCompaniesOf(wb)
      [] op = "saveProduct" -> getProductsOf(wb)
      [] OTHER -> getQuotationsOf(wb)

\* What a workbook shows for the record a call saves: the listed records of
\* its id, and for a quotation its items
ShownFor(call, wb) ==
    [records |-> WithId(ListOf(call.op, wb), call.arg.id),
     items |-> IF call.op = "saveQuotation" THEN getQuotationItemsOf(wb, call.arg.id)
               ELSE << >>]

\* Calls a and b ran against scope key, were in flight at the same time (b
\* started before a persisted, a before b), a persisted first, b last, and
\* no other call was issued.
InFlightTogether(a, b, key) ==
    /\ Len(calls) = 2
    /\ a \in 1..Len(calls)
    /\ b \in 1..Len(calls)
    /\ a # b
    /\ calls[a].pc = "done"
    /\ calls[b].pc = "done"
    /\ calls[a].startKey = key /\ calls[a].wroteKey = key
    /\ calls[b].startKey = key /\ calls[b].wroteKey = key
    /\ a \notin calls[b].persistedAtStart
    /\ b \notin calls[a].persistedAtStart
    /\ a \in calls[b].persistedBefore

\* The backing value is the one call b wrote, with b's change and with a's
\* change discarded: for a's record it shows what b had read.
LastPersistWins(a, b, key) ==
    LET final == localStorage[key]
    IN /\ final = Stored(XLSXRoundTrip(SaveTo(calls[b].op, calls[b].wb, calls[b].arg)))
       /\ ShownFor(calls[b], final.wb) =
             ShownFor(calls[b], SaveTo(calls[b].op, calls[b].wb, calls[b].arg))
       /\ (<<calls[a].op, calls[a].arg.id>> # <<calls[b].op, calls[b].arg.id>>) =>
             ShownFor(calls[a], final.wb) = ShownFor(calls[a], calls[b].wb)

(* C8 (as stated): when two saves against the same scope are in flight at    *)
(* the same time, both read the same workbook, and the final backing value   *)
(* is the one written by the call that persists last: it has that call's     *)
(* change and not the change of the call that persisted first.               *)
C8_SameWorkbookReadLastPersistWins ==
    \A a, b \in 1..Len(calls), key \in Users :
        InFlightTogether(a, b, key) =>
            /\ calls[a].wb = calls[b].wb
            /\ LastPersistWins(a, b, key)

(* C8 (amended): when two saves against the same scope are in flight at the  *)
(* same time, the final backing value is the one written by the call that    *)
(* persists last, with that call's change and without the change of the call *)
(* that persisted first; both calls read the same workbook unless the value  *)
(* was a legacy blob URL whose fetch succeeded for one call and failed for   *)
(* the other, which then read the re-initialised workbook.                   *)
C8_LastPersistWins ==
    \A a, b \in 1..Len(calls), key \in Users :
        InFlightTogether(a, b, key) =>
            /\ LastPersistWins(a, b, key)
            /\ {calls[a].via, calls[b].via} # {"fetched", "reinitialised"} =>
                  calls[a].wb = calls[b].wb
            /\ calls[a].via = "reinitialised" => calls[a].wb = FreshWorkbook
            /\ calls[b].via = "reinitialised" => calls[b].wb = FreshWorkbook

\* Two saves of different records were in flight together on a stored
\* workbook, and the record of the first to persist is not in the final value
C8_Witness ==
    \E a, b \in 1..Len(calls) :
        /\ InFlightTogether(a, b, "default")
        /\ calls[a].via = "stored"
        /\ calls[b].via = "stored"
        /\ calls[a].op = "saveCompany"
        /\ calls[b].op = "saveQuotation"
        /\ ShownFor(calls[a], SaveTo(calls[a].op, calls[a].wb, calls[a].arg)).records # << >>
        /\ ShownFor(calls[a], localStorage["default"].wb).records = << >>

(* C9: a call that read the backing value of one user scope writes the       *)
(* backing value of that scope only, also when the current user id is        *)
(* changed while the call is suspended between its read and its write.       *)
C9_WritesOnlyTheScopeItRead ==
    \A c \in 1..Len(calls) :
        calls[c].pc = "done" => calls[c].wroteKey = calls[c].startKey

-----------------------------------------------------------------------------
(* PDFService.generatePDF.  Each call creates an iframe, attaches it to      *)
(* document.body and returns a promise; the iframe of call c is named c.     *)

PdfUnchanged ==
    UNCHANGED <<localStorage, qs_current_user, companies, currentCompany, products, storeOp, calls,
                microtasks, page, html, origin, lastSaved, lastOp, opCount>>

\* (mutant) a resolve / reject that leaves the promise pending
SettleLost(call, outcome, reason) == call

\* resolve / reject: the first settlement of a promise is the one that counts
Settle(call, outcome, reason) ==
    IF call.promise = "pending"
    THEN [call EXCEPT !.promise = outcome, !.reason = reason]
    ELSE call

\* The executor of the promise: createElement, appendChild, and the early
\* return when the iframe has no document
GeneratePDF ==
    /\ Len(pdf) < MaxPdfCalls
    /\ \E hasDocument \in BOOLEAN :
         LET call == [pc |-> "loading", promise |-> "pending", reason |-> "none"]
         IN pdf' = Append(pdf,
                IF hasDocument THEN call
                ELSE [Settle(call, "rejected", "no document") EXCEPT !.pc = "returned"])
    /\ body' = body \cup {Len(pdf) + 1}
    /\ PdfUnchanged

\* iframe.onload up to await html2canvas(...)
OnLoad ==
    /\ \E c \in 1..Len(pdf) :
         /\ pdf[c].pc = "loading"
         /\ pdf' = [pdf EXCEPT ![c].pc = "capturing"]
    /\ UNCHANGED body
    /\ PdfUnchanged

\* iframe.onload after the capture settled: the rest of the try block, or the
\* catch block when html2canvas rejected or jsPDF threw
CaptureSettles ==
    /\ \E c \in 1..Len(pdf), result \in {"ok", "capture failed", "encoding failed"} :
         /\ pdf[c].pc = "capturing"
         /\ body' = body \ {c}
         /\ pdf' = [pdf EXCEPT ![c] =
                [Settle(pdf[c], IF result = "ok" THEN "resolved" ELSE "rejected", result)
                    EXCEPT !.pc = "returned"]]
    /\ PdfUnchanged

\* iframe.onerror
OnError ==
    /\ \E c \in 1..Len(pdf) :
         /\ pdf[c].pc = "loading"
         /\ body' = body \ {c}
         /\ pdf' = [pdf EXCEPT ![c] =
                [Settle(pdf[c], "rejected", "load error") EXCEPT !.pc = "returned"]]
    /\ PdfUnchanged

NextPdf ==
    \/ GeneratePDF
    \/ OnLoad
    \/ CaptureSettles
    \/ OnError

\* Nothing stored, no call made
InitPdf ==
    /\ InitRepo
    /\ localStorage["default"] = Absent

SpecPdf == InitPdf /\ [][NextPdf]_vars

(* C10: for every call of generatePDF, once its promise has resolved or      *)
(* rejected, on whichever path, the iframe the call attached to              *)
(* document.body is no longer attached.                                      *)
C10_IframeRemovedWhenSettled ==
    \A c \in 1..Len(pdf) : pdf[c].promise # "pending" => c \notin body

\* On the paths through onload and onerror the iframe is removed, and an
\* iframe stays attached while its call is pending.
IframeRemovedAfterLoadOrError ==
    \A c \in 1..Len(pdf) :
        /\ (pdf[c].promise # "pending" /\ pdf[c].reason # "no document") => c \notin body
        /\ pdf[c].promise = "pending" => c \in body

-----------------------------------------------------------------------------
(* C11: reading back a record that was just saved yields a record equal to   *)
(* the saved one in every field (strings, numbers, the yes/no token, the     *)
(* specifications map and the images list), for Company, Product, Customer,  *)
(* the Quotation header and the QuotationItem rows.                          *)
C11_ReadBackEqualsSaved ==
    (lastOp.op \in SaveOps /\ lastOp.status = "ok") =>
        LET R == lastOp.arg
            table == CASE lastOp.op = "saveCompany" -> "Company"
                       [] lastOp.op = "saveProduct" -> "Product"
                       [] lastOp.op = "saveCustomer" -> "Customer"
                       [] OTHER -> "Quotation"
        IN /\ Listed(table, R) = <<AsListed(table, R)>>
           /\ table = "Quotation" => getQuotationItemsByQuotationId(R.id) = R.items

-----------------------------------------------------------------------------
(* PDFService.generateQuotationHTML: the totals block and the inline images  *)
(* of the item rows.  A tax rate is held in tenths of a percent.             *)

MaxImages == 5

\* x > 0 on a number or NaN
GreaterThanZero(x) == x.t = "n" /\ x.v > 0

TotalLine(label, percent) == [label |-> label, percent |-> percent]

\* (mutant) the tax line is left out for the rate 0 only
TotalsBlockUnlessZero(quotation) ==
    <<TotalLine("Subtotal", Undefined)>>
    \o (IF ~StrictEq(quotation.taxRate, Num(0))
        THEN <<TotalLine("Tax", quotation.taxRate)>> ELSE << >>)
    \o <<TotalLine("Total", Undefined)>>

\* Subtotal, ${quotation.taxRate > 0 ? `Tax (${quotation.taxRate}%)` : ''}, Total
TotalsBlock(quotation) ==
    <<TotalLine("Subtotal", Undefined)>>
    \o (IF GreaterThanZero(quotation.taxRate)
        THEN <<TotalLine("Tax", quotation.taxRate)>> ELSE << >>)
    \o <<TotalLine("Total", Undefined)>>

\* (mutant) every image of the item is rendered
ItemImagesUncapped(item, options) ==
    IF options.showProductImages = "true" /\ item.images.t = "arr" /\ Len(item.images.v) > 0
    THEN item.images.v
    ELSE << >>

\* options.showProductImages && item.images && item.images.length
\*   ? item.images.slice(0,3).map(src => <img src>) : ''
ItemImages(item, options) ==
    IF options.showProductImages = "true" /\ item.images.t = "arr" /\ Len(item.images.v) > 0
    THEN SubSeq(item.images.v, 1, IF Len(item.images.v) < 3 THEN Len(item.images.v) ELSE 3)
    ELSE << >>

\* The inputs of a composition: a rate the tax field allows (0, 8.5, 100), one
\* that only a stored quotation can carry (-5, NaN), items with 0..MaxImages
\* images or (read back from the QuotationItem table) without the field
ImageSources ==
    SubSeq(<<"img1", "img2", "img3", "img4", "img5", "img6", "img7">>, 1, MaxImages)
ComposeTaxRates == {Num(0 - 50), Num(0), Num(85), Num(1000), NaN}
ComposeItems ==
    {[id |-> Str("i1"), images |-> Arr(SubSeq(ImageSources, 1, n))] : n \in 0..MaxImages}
    \cup {[id |-> Str("i1"), images |-> Undefined]}
ComposeItemLists ==
    {<<item>> : item \in ComposeItems}
    \cup {<<[id |-> Str("i1"), images |-> Arr(ImageSources)],
            [id |-> Str("i2"), images |-> Arr(SubSeq(ImageSources, 2, 3))]>>}
ComposeOptions == {[showProductImages |-> o] : o \in {"true", "false", "undefined"}}

\* generateQuotationHTML(company, customer, quotation, options)
GenerateQuotationHTML ==
    /\ \E taxRate \in ComposeTaxRates, items \in ComposeItemLists, options \in ComposeOptions :
         LET quotation == [taxRate |-> taxRate, items |-> items]
         IN html' = [made |-> TRUE, quotation |-> quotation, options |-> options,
                     totals |-> TotalsBlock(quotation),
                     images |-> [i \in 1..Len(items) |-> ItemImages(items[i], options)]]
    /\ UNCHANGED <<localStorage, qs_current_user, companies, currentCompany, products, storeOp, calls,
                   microtasks, pdf, body, page, origin, lastSaved, lastOp, opCount>>

NextCompose == GenerateQuotationHTML

SpecCompose == InitStore /\ [][NextCompose]_vars

Labels(block) == [i \in 1..Len(block) |-> block[i].label]

(* C12 (as stated): in the composed document the totals block holds only the *)
(* subtotal and total lines if taxRate is 0, and for every other taxRate the *)
(* subtotal line, a tax line labelled with the percentage, and the total.    *)
C12_TaxLineUnlessRateIsZero ==
    html.made =>
        IF StrictEq(html.quotation.taxRate, Num(0))
        THEN Labels(html.totals) = <<"Subtotal", "Total">>
        ELSE /\ Labels(html.totals) = <<"Subtotal", "Tax", "Total">>
             /\ html.totals[2].percent = html.quotation.taxRate

(* C12 (amended): the totals block holds the subtotal line, a tax line       *)
(* labelled with the percentage, and the total line if taxRate is greater    *)
(* than 0; it holds only the subtotal and total lines if taxRate is 0, and   *)
(* also if it is negative or not a number.                                   *)
C12_TaxLineIfRatePositive ==
    html.made =>
        IF html.quotation.taxRate.t = "n" /\ html.quotation.taxRate.v >= 1
        THEN /\ Labels(html.totals) = <<"Subtotal", "Tax", "Total">>
             /\ html.totals[2].percent = html.quotation.taxRate
        ELSE Labels(html.totals) = <<"Subtotal", "Total">>

\* A document composed for a quotation with a negative tax rate
C12_Witness ==
    /\ html.made
    /\ html.quotation.taxRate = Num(0 - 50)
    /\ Len(html.totals) = 2

(* C13: an item that carries n images is rendered with exactly min(3, n)     *)
(* inline images, the first ones in order, when the show-images option is    *)
(* true, and with no image when the option is false or not given.            *)
C13_AtMostThreeImagesPerItem ==
    html.made =>
        \A i \in 1..Len(html.quotation.items) :
            LET carried == IF html.quotation.items[i].images.t = "arr"
                           THEN html.quotation.items[i].images.v ELSE << >>
                n == Len(carried)
                shown == html.images[i]
            IN IF html.options.showProductImages = "true"
               THEN /\ Len(shown) = (IF n <= 3 THEN n ELSE 3)
                    /\ \A k \in 1..Len(shown) : shown[k] = carried[k]
               ELSE shown = << >>

\* An item with 5 images rendered with the option on: 3 images shown
C13_Witness ==
    /\ html.made
    /\ html.options.showProductImages = "true"
    /\ Len(html.quotation.items[1].images.v) = 5
    /\ Len(html.images[1]) = 3

-----------------------------------------------------------------------------
(* The QuotationCreate page.  Money is held in cents, a tax rate in tenths   *)
(* of a percent, and the amounts calculateTotals returns in thousandths of a *)
(* cent, so that every product of an amount and a rate is a whole number.    *)

MaxItems == 2

\* The products the page offers: id, minPrice (cents).  The product form takes
\* parseFloat(values.minPrice) || 0 from a plain number input, so a stored
\* product may carry a price below zero.
PageProducts == {[id |-> "p1", minPrice |-> 1000], [id |-> "p2", minPrice |-> 0 - 200]}

PageUnchanged ==
    UNCHANGED <<localStorage, qs_current_user, companies, currentCompany, products, storeOp, calls,
                microtasks, pdf, body, html, origin, lastSaved, lastOp, opCount>>

\* quantity * unitPrice * (1 - discountRate / 100), with discountRate 0
ItemTotalPrice(quantity, unitPrice) == quantity * unitPrice

\* handleAddProduct(product)
HandleAddProduct ==
    /\ page.currentStep = 2
    /\ Len(page.selectedItems) < MaxItems
    /\ \E product \in PageProducts :
         LET Same(item) == item.productId = Str(product.id)
             newItem == [id |-> Str(product.id), productId |-> Str(product.id),
                         quantity |-> 1, unitPrice |-> product.minPrice,
                         totalPrice |-> product.minPrice]
         IN page' = IF SelectSeq(page.selectedItems, Same) # << >> THEN page
                    ELSE [page EXCEPT !.selectedItems = Append(@, newItem)]
    /\ PageUnchanged

\* handleRemoveProduct(itemId)
HandleRemoveProduct ==
    /\ page.currentStep = 2
    /\ \E k \in 1..Len(page.selectedItems) :
         LET Other(item) == item.id # page.selectedItems[k].id
         IN page' = [page EXCEPT !.selectedItems = SelectSeq(@, Other)]
    /\ PageUnchanged

\* The item list handleQuantityChange sets for the item at k
QuantityChanged(items, k, quantity) ==
    IF quantity <= 0 THEN items
    ELSE [items EXCEPT ![k].quantity = quantity,
                       ![k].totalPrice = ItemTotalPrice(quantity, items[k].unitPrice)]

\* The item list handleUnitPriceChange sets for the item at k
UnitPriceChanged(items, k, unitPrice) ==
    IF unitPrice < 0 THEN items
    ELSE [items EXCEPT ![k].unitPrice = unitPrice,
                       ![k].totalPrice = ItemTotalPrice(items[k].quantity, unitPrice)]

\* handleQuantityChange(itemId, quantity)
HandleQuantityChange ==
    /\ page.currentStep = 2
    /\ \E k \in 1..Len(page.selectedItems), quantity \in {0, 1, 2} :
         page' = [page EXCEPT !.selectedItems = QuantityChanged(@, k, quantity)]
    /\ PageUnchanged

\* handleUnitPriceChange(itemId, unitPrice)
HandleUnitPriceChange ==
    /\ page.currentStep = 2
    /\ \E k \in 1..Len(page.selectedItems), unitPrice \in {0 - 1, 500, 100000} :
         page' = [page EXCEPT !.selectedItems = UnitPriceChanged(@, k, unitPrice)]
    /\ PageUnchanged

\* The taxRate field of the terms step (InputNumber min 0, max 100)
SetTaxRate ==
    /\ page.currentStep = 3
    /\ \E taxRate \in {0, 85, 1000} : page' = [page EXCEPT !.taxRate = Num(taxRate)]
    /\ PageUnchanged

\* handleStepChange(step): a click on a step of the Steps bar
HandleStepChange ==
    /\ \E step \in 0..4 :
         /\ step # page.currentStep
         /\ page' = [page EXCEPT !.currentStep = step]
    /\ PageUnchanged

\* selectedItems.reduce((sum, item) => sum + item.totalPrice, 0)
RECURSIVE SumTotalPrice(_)
SumTotalPrice(items) ==
    IF items = << >> THEN 0 ELSE items[1].totalPrice + SumTotalPrice(Tail(items))

\* (mutant) the tax is computed but not added to the total
calculateTotalsWithoutTax(p) ==
    LET subtotal == SumTotalPrice(p.selectedItems)
        taxRate == OrElse(p.taxRate, Num(0)).v
    IN [subtotal |-> subtotal * 1000, taxAmount |-> subtotal * taxRate,
        total |-> subtotal * 1000]

\* calculateTotals(): subtotal, subtotal * (taxRate / 100), subtotal + taxAmount
calculateTotals(p) ==
    LET subtotal == SumTotalPrice(p.selectedItems)
        taxRate == OrElse(p.taxRate, Num(0)).v
    IN [subtotal |-> subtotal * 1000, taxAmount |-> subtotal * taxRate,
        total |-> subtotal * 1000 + subtotal * taxRate]

NextTotals ==
    \/ HandleStepChange
    \/ HandleAddProduct
    \/ HandleRemoveProduct
    \/ HandleQuantityChange
    \/ HandleUnitPriceChange
    \/ SetTaxRate

SpecTotals == InitStore /\ [][NextTotals]_vars

\* The sum of quantity * unitPrice over the items, from the last item down
RECURSIVE SumOfLines(_)
SumOfLines(items) ==
    IF Len(items) = 0 THEN 0
    ELSE SumOfLines(SubSeq(items, 1, Len(items) - 1))
         + items[Len(items)].quantity * items[Len(items)].unitPrice

-----------------------------------------------------------------------------
(* A persist that fails (SpecRepo). *)

PersistFailed == lastOp.op \in SaveOps /\ lastOp.status = "failed"

\* C15 (as stated): when the persist of saveCompany, saveProduct, saveCustomer
\* or saveQuotation throws, the call rejects with that failure and the backing
\* value is the one before the call.
C15_FailedPersistLeavesValueUnchanged ==
    PersistFailed => localStorage = lastOp.before

\* C15 (amended): when the persist throws, the call rejects with that failure
\* and the backing value is the one the call's own read left: the stored
\* workbook where one was stored, the freshly initialised empty workbook where
\* the value was absent, either of the two where it was a legacy blob URL.
\* Nothing of the record being saved has reached the store.
C15_FailedPersistLeavesWhatTheReadLeft ==
    PersistFailed =>
        LET key == getUserKey(lastOp.user)
            was == lastOp.before[key]
        IN /\ \A u \in Users \ {key} : localStorage[u] = lastOp.before[u]
           /\ was.kind = "xlsx" => localStorage[key] = was
           /\ was.kind = "absent" => localStorage[key] = Stored(FreshWorkbook)
           /\ was.kind = "blob" => localStorage[key] \in {was, Stored(FreshWorkbook)}
           /\ was.kind # "corrupt"

\* C15 witness: a save whose persist threw, over a workbook that already held
\* a saved record; the workbook is still the stored one.
C15_Witness ==
    /\ PersistFailed
    /\ lastOp.before[getUserKey(lastOp.user)].kind = "xlsx"
    /\ lastSaved # NothingSaved
    /\ localStorage = lastOp.before

-----------------------------------------------------------------------------
(* saveQuotation persists the row and the items together (SpecRepo). *)

-----------------------------------------------------------------------------
(* setDefaultCompany with a persist that fails (SpecStore). *)

\* C17: setDefaultCompany is all-or-nothing: if a persist fails while it runs,
\* the call rejects and the persisted Company table equals the table before
\* the call.
C17_SetDefaultAllOrNothing ==
    (storeOp.op = "idle" /\ lastOp.op = "setDefaultCompany" /\ lastOp.status = "failed") =>
        getCompaniesOf(BookOfStorage(localStorage)) = getCompaniesOf(BookOfStorage(lastOp.before))

-----------------------------------------------------------------------------
(* Saving from the QuotationCreate page (SpecSave). *)

MaxSaved == 2

\* uuidv4(): a new id at every call
CustomerUuids == <<"k1", "k2", "k3", "k4">>
QuotationUuids == <<"q1", "q2", "q3", "q4">>

\* The required fields of the Form rendered at a step (renderBasicInfo,
\* renderCustomerInfo); the other steps render no required field, the preview
\* step renders no Form at all.
RequiredFieldsAt(step) ==
    CASE step = 0 -> {"companyId"}
      [] step = 1 -> {"customerName"}
      [] OTHER -> {}

\* form.validateFields(names): the rules of the fields that are mounted; the
\* promise rejects when one of them has no value.
validateFields(p, names) ==
    \A f \in RequiredFieldsAt(p.currentStep) \cap names : ~Falsy(p[f])

AllFields == {"companyId", "customerName"}

\* The Select of companyId (step 0) and the Input of customerName (step 1):
\* a value is chosen or the field is cleared
SetCompanyId ==
    /\ page.currentStep = 0
    /\ \E v \in {Undefined, Str("c1")} : page' = [page EXCEPT !.companyId = v]
    /\ PageUnchanged

SetCustomerName ==
    /\ page.currentStep = 1
    /\ \E v \in {Undefined, Str("Ann")} : page' = [page EXCEPT !.customerName = v]
    /\ PageUnchanged

\* handleNext(): validate the fields of the current step, then one step on
HandleNext ==
    /\ page.currentStep < 4
    /\ page' =
         IF \/ page.currentStep = 0 /\ ~validateFields(page, {"companyId"})
            \/ page.currentStep = 1 /\ ~validateFields(page, {"customerName"})
            \/ page.currentStep = 2 /\ page.selectedItems = << >>
         THEN page
         ELSE [page EXCEPT !.currentStep = @ + 1]
    /\ PageUnchanged

\* One ExcelService save run to completion on the backing store `ls`
ServiceSaveOn(ls, user, op, record, persistOk) ==
    LET r == readFromLocalStorage(ls, user, FALSE)
    IN IF ~r.ok THEN [status |-> "rejected", ls |-> r.ls]
       ELSE IF persistOk
            THEN [status |-> "ok",
                  ls |-> saveToLocalStorage(r.ls, user, SaveTo(op, r.wb, record))]
            ELSE [status |-> "failed",
                  ls |-> saveToLocalStorageThrowing(r.ls, user, SaveTo(op, r.wb, record))]

\* The customer and the quotation handleSaveQuotation builds from the form;
\* page.saved counts the saves that drew their ids, so that every save that
\* passes the validation has ids no earlier save had
CustomerOfPage(p) ==
    [id |-> Str(CustomerUuids[p.saved + 1]), name |-> OrElse(p.customerName, Str(""))]

QuotationOfPage(p) ==
    [id |-> Str(QuotationUuids[p.saved + 1]),
     companyId |-> p.companyId,
     customerId |-> Str(CustomerUuids[p.saved + 1]),
     taxRate |-> Number(OrElse(p.taxRate, Num(0))),
     status |-> Str("draft"),
     items |-> [i \in 1..Len(p.selectedItems) |->
                  [id |-> p.selectedItems[i].id,
                   productId |-> p.selectedItems[i].productId,
                   quantity |-> Num(p.selectedItems[i].quantity)]]]

\* handleSaveQuotation(): the Save button of the preview step
HandleSaveQuotation ==
    /\ page.currentStep = 4
    /\ page.saved < MaxSaved
    /\ IF ~validateFields(page, AllFields) \/ page.selectedItems = << >>
       THEN /\ lastOp' = Completed("handleSaveQuotation", page, "aborted", << >>)
            /\ UNCHANGED <<localStorage, page, lastSaved>>
       ELSE \E okCustomer, okQuotation \in BOOLEAN :
              LET customer == CustomerOfPage(page)
                  quotation == QuotationOfPage(page)
                  c == ServiceSaveOn(localStorage, qs_current_user, "saveCustomer",
                                     customer, okCustomer)
                  q == ServiceSaveOn(c.ls, qs_current_user, "saveQuotation",
                                     quotation, okQuotation)
              IN IF c.status # "ok"
                 THEN /\ localStorage' = c.ls
                      /\ lastOp' = Completed("handleSaveQuotation", page, c.status, << >>)
                      /\ page' = [page EXCEPT !.saved = page.saved + 1]
                      /\ lastSaved' = lastSaved
                 ELSE IF q.status # "ok"
                 THEN /\ localStorage' = q.ls
                      /\ lastOp' = Completed("handleSaveQuotation", page, q.status, << >>)
                      /\ lastSaved' = [lastSaved EXCEPT
                                         !.Customer = Put(@, customer.id.v, customer)]
                      /\ page' = [page EXCEPT !.saved = page.saved + 1]
                 ELSE /\ localStorage' = q.ls
                      /\ lastOp' = Completed("handleSaveQuotation", page, "ok", << >>)
                      /\ lastSaved' = [lastSaved EXCEPT
                                         !.Customer = Put(@, customer.id.v, customer),
                                         !.Quotation = Put(@, quotation.id.v, quotation)]
                      /\ page' = [PageInitial EXCEPT !.saved = page.saved + 1,
                                                   !.list = page.list]
    /\ UNCHANGED <<qs_current_user, companies, currentCompany, products, storeOp, calls, microtasks,
                   pdf, body, html, origin, opCount>>

NextSave ==
    \/ HandleStepChange
    \/ HandleNext
    \/ SetCompanyId
    \/ SetCustomerName
    \/ HandleAddProduct
    \/ HandleRemoveProduct
    \/ HandleSaveQuotation

SpecSave == InitStore /\ [][NextSave]_vars

SaveClicked == lastOp.op = "handleSaveQuotation"

\* C18: a save clicked while a required form field has no value, or while no
\* item is selected, is aborted before any persist: neither saveCustomer nor
\* saveQuotation is called and the backing value is unchanged.
C18_InvalidSaveAbortedBeforeAnyPersist ==
    (/\ SaveClicked
     /\ \/ Falsy(lastOp.arg.companyId)
        \/ Falsy(lastOp.arg.customerName)
        \/ lastOp.arg.selectedItems = << >>) =>
        /\ lastOp.status = "aborted"
        /\ localStorage = lastOp.before

\* The part of C18 the code keeps: a save clicked while no item is selected
\* calls no save and leaves the backing value unchanged.
SaveWithoutItemsAborted ==
    (SaveClicked /\ lastOp.arg.selectedItems = << >>) =>
        /\ lastOp.status = "aborted"
        /\ localStorage = lastOp.before

-----------------------------------------------------------------------------
(* HistoryPage: the stored quotations and their PDF preview (SpecHistory). *)

\* load(): setList(await excelService.getQuotations())
HistoryLoad ==
    /\ LET r == readFromLocalStorage(localStorage, qs_current_user, FALSE)
       IN /\ localStorage' = r.ls
          /\ page' = [page EXCEPT !.list = IF r.ok THEN getQuotationsOf(r.wb) ELSE << >>]
    /\ UNCHANGED <<qs_current_user, companies, currentCompany, products, storeOp, calls, microtasks,
                   pdf, body, html, origin, lastSaved, lastOp, opCount>>

\* customer ? {name: customer.name, ...} : {name: r.customerId, ...}
CustomerForDocument(found, r) ==
    IF found # << >> THEN [name |-> found[1].name] ELSE [name |-> r.customerId]

\* The click handler of the preview button of a row r of the list:
\*   const company = companies.find(c => c.id === r.companyId);
\*   if (!company) return;
\*   const customer = await excelService.getCustomerById(r.customerId); ...
PreviewPDF ==
    /\ \E k \in 1..Len(page.list) :
         LET r == page.list[k]
             company == WithId(companies, r.companyId)
             arg == [quotation |-> r, companies |-> companies]
             read == readFromLocalStorage(localStorage, qs_current_user, FALSE)
             found == IF read.ok THEN CustomersById(read.wb, r.customerId) ELSE << >>
             items == IF Len(r.items) > 0 THEN r.items
                      ELSE IF read.ok THEN getQuotationItemsOf(read.wb, r.id) ELSE << >>
             quotation == [taxRate |-> r.taxRate, items |-> items]
             options == [showProductImages |-> "undefined"]
         IN IF company = << >>
            THEN /\ lastOp' = Completed("previewPDF", arg, "returned", << >>)
                 /\ UNCHANGED <<localStorage, html>>
            ELSE /\ localStorage' = read.ls
                 /\ html' = [made |-> TRUE, quotation |-> quotation, options |-> options,
                             totals |-> TotalsBlock(quotation),
                             images |-> [i \in 1..Len(items) |-> ItemImages(items[i], options)],
                             customer |-> CustomerForDocument(found, r)]
                 /\ lastOp' = Completed("previewPDF", arg, "opened", << >>)
    /\ UNCHANGED <<qs_current_user, companies, currentCompany, products, storeOp, calls, microtasks,
                   pdf, body, page, origin, lastSaved, opCount>>

NextHistory ==
    \/ StoreSaveCompany
    \/ SaveCustomer
    \/ SaveQuotation
    \/ HistoryLoad
    \/ PreviewPDF

SpecHistory == InitStore /\ [][NextHistory]_vars

PreviewClicked == lastOp.op = "previewPDF"

\* The preview was requested while the store's list held no company with the
\* companyId of the quotation
NoCompanyForPreview ==
    WithId(lastOp.arg.companies, lastOp.arg.quotation.companyId) = << >>

\* C19: a PDF requested for a stored quotation whose companyId matches no
\* Company is a failure surfaced to the caller; with the company found, a
\* customer lookup without a match is a normal result and the PDF is made.
C19_MissingCompanyIsSurfacedAsFailure ==
    PreviewClicked =>
        IF NoCompanyForPreview THEN lastOp.status = "failed"
        ELSE lastOp.status = "opened"

\* The part of C19 the code keeps: with the company found and no customer of
\* that id stored, the document is composed, under the customer id as name.
CustomerLookupMissIsNormal ==
    (/\ PreviewClicked
     /\ ~NoCompanyForPreview
     /\ CustomersById(BookOfStorage(lastOp.before), lastOp.arg.quotation.customerId) = << >>) =>
        /\ lastOp.status = "opened"
        /\ html.made
        /\ html.customer.name = lastOp.arg.quotation.customerId

-----------------------------------------------------------------------------
(* The company management page (SpecCompanies). *)

\* disabled={companies.length >= 3}
MaxCompanies == 3

\* uuidv4(): an id no company of the table carries
CompanyUuids == <<"c1", "c2", "c3", "c4">>

PersistedCompanies == getCompaniesOf(BookOfStorage(localStorage))

UnusedUuids ==
    {i \in 1..Len(CompanyUuids) :
        \A k \in 1..Len(PersistedCompanies) :
            ~StrictEq(PersistedCompanies[k].id, Str(CompanyUuids[i]))}

PageIdle == ~page.modalVisible /\ storeOp.op = "idle"

\* handleNewCompany(): the button is disabled while the list holds 3 companies
HandleNewCompany ==
    /\ PageIdle
    /\ Len(companies) < MaxCompanies
    /\ page' = [page EXCEPT !.modalVisible = TRUE, !.editingCompany = Undefined]
    /\ PageUnchanged

\* handleEditCompany(company)
HandleEditCompany ==
    /\ PageIdle
    /\ \E k \in 1..Len(companies) :
         page' = [page EXCEPT !.modalVisible = TRUE, !.editingCompany = companies[k]]
    /\ PageUnchanged

\* onCancel={() => setModalVisible(false)}
CancelModal ==
    /\ page.modalVisible
    /\ page' = [page EXCEPT !.modalVisible = FALSE]
    /\ PageUnchanged

\* handleFormSubmit(values): the store's saveCompany (save, then reload), then
\* the modal is closed; a failure leaves the modal open.
HandleFormSubmit ==
    /\ page.modalVisible
    /\ page.editingCompany = Undefined => UnusedUuids # {}
    /\ \E name \in {"Acme", "Bolt"}, persistOk \in BOOLEAN :
         LET id == IF page.editingCompany = Undefined
                   THEN Str(CompanyUuids[CHOOSE i \in UnusedUuids :
                                            \A j \in UnusedUuids : i <= j])
                   ELSE page.editingCompany.id
             companyData == [id |-> id, name |-> Str(name), isDefault |-> FALSE]
             s == ServiceSaveOn(localStorage, qs_current_user, "saveCompany",
                                companyData, persistOk)
         IN /\ localStorage' = s.ls
            /\ lastOp' = Completed("handleFormSubmit", companyData, s.status, << >>)
            /\ IF s.status = "ok"
               THEN /\ companies' = getCompaniesOf(BookOfStorage(s.ls))
                    /\ currentCompany' = CurrentAfterLoad(currentCompany, companies')
                    /\ lastSaved' = Remember("Company", companyData)
                    /\ page' = [page EXCEPT !.modalVisible = FALSE]
               ELSE UNCHANGED <<companies, currentCompany, lastSaved, page>>
    /\ UNCHANGED <<qs_current_user, products, storeOp, calls, microtasks, pdf, body,
                   html, origin, opCount>>

\* handleDeleteCompany(companyId), confirmed: deleteCompany(companyId)
HandleDeleteCompany ==
    /\ PageIdle
    /\ \E k \in 1..Len(companies) :
         Begin("deleteCompany", companies[k].id, WithoutId(companies, companies[k].id))

\* handleSetDefaultCompany(companyId): setDefaultCompany(companyId)
HandleSetDefaultCompany ==
    /\ PageIdle
    /\ \E k \in 1..Len(companies) :
         Begin("setDefaultCompany", companies[k].id,
               DefaultFlagsFor(companies, companies[k].id))

NextCompanies ==
    \/ HandleNewCompany
    \/ HandleEditCompany
    \/ CancelModal
    \/ HandleFormSubmit
    \/ HandleDeleteCompany
    \/ HandleSetDefaultCompany
    \/ SaveNext
    \/ Reload

SpecCompanies == InitStore /\ [][NextCompanies]_vars

\* The Company table never holds more than 3 rows
CompanyTableWithinLimit == Len(PersistedCompanies) <= MaxCompanies

\* Once a deleteCompany has completed, the page offers to create a company
CreationOfferedAfterDelete ==
    (PageIdle /\ StoreCompleted("deleteCompany")) => ENABLED HandleNewCompany

\* C20: through the company management page, from an empty table, the
\* Company table never holds more than 3 rows, and a new company can be
\* created again once an existing one has been deleted.
C20_AtMostThreeAndCreatableAfterDelete ==
    /\ CompanyTableWithinLimit
    /\ CreationOfferedAfterDelete

-----------------------------------------------------------------------------
(* Row order of the lists (SpecRepo). *)

IdsOf(list) == [i \in 1..Len(list) |-> list[i].id]

ListedOps == {"saveCompany", "saveProduct", "saveQuotation"}

\* The list of the table `op` saves to, before and after the last call
ListBefore == ListOf(lastOp.op, BookOfStorage(lastOp.before))
ListAfter == ListOf(lastOp.op, BookOfStorage(localStorage))

-----------------------------------------------------------------------------
(* A Company table whose columns are not in the canonical order, as an       *)
(* imported workbook can carry it (SpecColumns).                             *)

\* The orders of the columns of the Company table
CompanyHeaderOrders ==
    LET names == {getCompanyHeaders[i] : i \in 1..Len(getCompanyHeaders)}
    IN {h \in names \X names \X names : h[1] # h[2] /\ h[1] # h[3] /\ h[2] # h[3]}

\* The row of a company under a header row: each cell under its column name
RowUnder(headers, company) ==
    [i \in 1..Len(headers) |->
        CASE headers[i] = Str("ID") -> company.id
          [] headers[i] = Str("name") -> company.name
          [] OTHER -> YesNo(company.isDefault)]

OldCompany == [id |-> Str("c1"), name |-> Str("Old"), isDefault |-> TRUE]

\* A workbook with all tables, the Company table under `headers` with `rows`
BookWithCompanies(headers, rows) ==
    SetSheet(BookOf(AllSheets), "Company",
             <<headers>> \o [i \in 1..Len(rows) |-> RowUnder(headers, rows[i])])

\* The state after importExcel stored such a workbook
InitColumns ==
    /\ \E headers \in CompanyHeaderOrders, rows \in {<< >>, <<OldCompany>>} :
         localStorage = [u \in Users |->
                            IF u = "default"
                            THEN Stored(XLSXRoundTrip(BookWithCompanies(headers, rows)))
                            ELSE Absent]
    /\ origin = [u \in Users |-> IF u = "default" THEN "imported" ELSE "absent"]
    /\ qs_current_user = ""
    /\ companies = << >>
    /\ currentCompany = Null
    /\ products = << >>
    /\ storeOp = StoreIdle
    /\ calls = << >>
    /\ microtasks = << >>
    /\ pdf = << >>
    /\ body = {}
    /\ page = PageInitial
    /\ html = NoDocument
    /\ lastSaved = NothingSaved
    /\ lastOp = NoOp
    /\ opCount = 0

NextColumns ==
    \/ SaveCompany
    \/ ListRecords

SpecColumns == InitColumns /\ [][NextColumns]_vars

\* Reads locate every field by the name of its column: whatever the order of
\* the columns, the rows are decoded to the same records.
ReadsLocateFieldsByColumnName ==
    \A headers \in CompanyHeaderOrders :
        getCompaniesOf(BookWithCompanies(headers, <<OldCompany, ImportedCompany>>))
            = <<OldCompany, ImportedCompany>>

\* C22: the order of the columns of a table does not matter: on a table whose
\* header row is any permutation of the canonical columns, upserts and reads
\* give the records they give on the canonical table; an upsert (of a new or
\* of an existing id) is followed by a read that returns the record once, with
\* the upserted field values.
C22_ColumnOrderDoesNotMatter ==
    /\ ReadsLocateFieldsByColumnName
    /\ (lastOp.op = "saveCompany" /\ lastOp.status = "ok") =>
          Listed("Company", lastOp.arg) = <<lastOp.arg>>

-----------------------------------------------------------------------------
(* Rows whose numeric cells are missing or hold text, as an imported         *)
(* workbook can carry them (SpecDecode).                                     *)

\* What a numeric cell can hold: nothing, a number, a decimal text, another text
NumericCells == {Undefined, Num(5), Str("5"), Str("abc"), Str("")}

BookWithCells(minPrice, taxRate, quantity) ==
    LET wbP == SetSheet(BookOf(AllSheets), "Product",
                        <<getProductHeaders, <<Str("p1"), minPrice>>>>)
        wbQ == SetSheet(wbP, "Quotation",
                        <<getQuotationHeaders,
                          <<Str("q1"), Str("c1"), Str("k1"), taxRate, Str("draft")>>>>)
    IN SetSheet(wbQ, "QuotationItem",
                <<getQuotationItemHeaders, <<Str("i1"), Str("q1"), Str("p1"), quantity>>>>)

\* The cells the rows of the stored workbook were built with
CellsOf(wb) ==
    [minPrice |-> At(wb.Sheets["Product"][2], IndexOf(getProductHeaders, "minPrice")),
     taxRate |-> At(wb.Sheets["Quotation"][2], IndexOf(getQuotationHeaders, "taxRate")),
     quantity |-> At(wb.Sheets["QuotationItem"][2], IndexOf(getQuotationItemHeaders, "quantity"))]

\* The state after importExcel stored such a workbook
InitDecode ==
    /\ \E minPrice, taxRate, quantity \in NumericCells :
         localStorage = [u \in Users |->
                            IF u = "default"
                            THEN Stored(XLSXRoundTrip(BookWithCells(minPrice, taxRate, quantity)))
                            ELSE Absent]
    /\ origin = [u \in Users |-> IF u = "default" THEN "imported" ELSE "absent"]
    /\ qs_current_user = ""
    /\ companies = << >>
    /\ currentCompany = Null
    /\ products = << >>
    /\ storeOp = StoreIdle
    /\ calls = << >>
    /\ microtasks = << >>
    /\ pdf = << >>
    /\ body = {}
    /\ page = PageInitial
    /\ html = NoDocument
    /\ lastSaved = NothingSaved
    /\ lastOp = NoOp
    /\ opCount = 0

NextDecode == ListRecords

SpecDecode == InitDecode /\ [][NextDecode]_vars

\* A cell that is missing, or holds a text that is no number
NoNumberIn(cell) ==
    \/ cell.t = "z"
    \/ cell.t = "s" /\ cell.v \notin DOMAIN NumeralOf

DecodedNumbers ==
    [minPrice |-> getProducts[1].minPrice,
     taxRate |-> getQuotations[1].taxRate,
     quantity |-> getQuotationItemsByQuotationId(Str("q1"))[1].quantity]

\* C23: a numeric field whose cell is missing or holds text that is not a
\* number decodes to 0, never to a not-a-number value (Product minPrice,
\* Quotation taxRate, QuotationItem quantity standing for the numeric fields).
C23_NumericFieldsDefaultToZero ==
    lastOp.op = "list" =>
        \A f \in {"minPrice", "taxRate", "quantity"} :
            /\ DecodedNumbers[f] # NaN
            /\ NoNumberIn(CellsOf(BookNow.wb)[f]) => DecodedNumbers[f] = Num(0)

\* The part of C23 the code keeps: a missing cell decodes to 0, a number and
\* a decimal text to their value.
MissingNumericCellsDecodeToZero ==
    lastOp.op = "list" =>
        \A f \in {"minPrice", "taxRate", "quantity"} :
            LET cell == CellsOf(BookNow.wb)[f]
            IN /\ cell \in {Undefined, Str("")} => DecodedNumbers[f] = Num(0)
               /\ cell \in {Num(5), Str("5")} => DecodedNumbers[f] = Num(5)

-----------------------------------------------------------------------------
(* Placing the captured bitmap on the page (SpecPlace).  Lengths are whole   *)
(* millimetres and pixels; the scale factor and the placed size are exact    *)
(* fractions num / den.                                                      *)

\* pdf.internal.pageSize of the formats and orientations, in mm
PageSizes ==
    {[width |-> 210, height |-> 297], [width |-> 297, height |-> 210],
     [width |-> 216, height |-> 279], [width |-> 279, height |-> 216]}

\* config.margin: the default of the service (20 on every side) and others
Margins ==
    {[top |-> t, right |-> r, bottom |-> b, left |-> l] :
        t \in {0, 20}, r \in {0, 20, 90}, b \in {20, 90}, l \in {10, 20}}

\* canvas.width x canvas.height
CanvasSizes ==
    {[width |-> w, height |-> h] : w \in {1, 794, 1588}, h \in {1, 1123, 2246}}

\* (mutant) the larger of the two quotients
FitRatioLargest(pdfWidth, pdfHeight, imgWidth, imgHeight) ==
    IF pdfWidth * imgHeight >= pdfHeight * imgWidth
    THEN [num |-> pdfWidth, den |-> imgWidth]
    ELSE [num |-> pdfHeight, den |-> imgHeight]

\* Math.min(pdfWidth / imgWidth, pdfHeight / imgHeight)
FitRatio(pdfWidth, pdfHeight, imgWidth, imgHeight) ==
    IF pdfWidth * imgHeight <= pdfHeight * imgWidth
    THEN [num |-> pdfWidth, den |-> imgWidth]
    ELSE [num |-> pdfHeight, den |-> imgHeight]

\* pdf.addImage(imgData, 'PNG', margin.left, margin.top, imgWidth * ratio, imgHeight * ratio)
AddImage ==
    /\ \E size \in PageSizes, margin \in Margins, canvas \in CanvasSizes :
         LET pdfWidth == size.width - margin.left - margin.right
             pdfHeight == size.height - margin.top - margin.bottom
             ratio == FitRatio(pdfWidth, pdfHeight, canvas.width, canvas.height)
         IN /\ pdfWidth > 0
            /\ pdfHeight > 0
            /\ pdf' = <<[pc |-> "returned", promise |-> "resolved", reason |-> "ok",
                         printable |-> [width |-> pdfWidth, height |-> pdfHeight],
                         margin |-> margin, canvas |-> canvas,
                         image |-> [x |-> margin.left, y |-> margin.top,
                                    width |-> [num |-> canvas.width * ratio.num,
                                               den |-> ratio.den],
                                    height |-> [num |-> canvas.height * ratio.num,
                                                den |-> ratio.den]]]>>
    /\ UNCHANGED body
    /\ PdfUnchanged

NextPlace == AddImage

SpecPlace == InitPdf /\ [][NextPlace]_vars

-----------------------------------------------------------------------------
(* generatePDF settles (SpecPdfLive).  The browser delivers the load or the  *)
(* error event of an iframe whose document was written, and the capture of   *)
(* html2canvas settles: the events that are due are not withheld for ever.   *)

SpecPdfLive ==
    /\ InitPdf
    /\ [][NextPdf]_vars
    /\ WF_vars(OnLoad \/ OnError)
    /\ WF_vars(CaptureSettles)

\* A settled promise stays as it settled
SettlesAtMostOnce ==
    [][\A c \in 1..Len(pdf) :
          pdf[c].promise # "pending" =>
              /\ pdf'[c].promise = pdf[c].promise
              /\ pdf'[c].reason = pdf[c].reason]_vars

\* Every call made is settled at some time
EveryCallSettles ==
    \A c \in 1..MaxPdfCalls :
        [](Len(pdf) >= c => <>(Len(pdf) >= c /\ pdf[c].promise \in {"resolved", "rejected"}))

-----------------------------------------------------------------------------
(* What a save leaves alone (SpecRepo). *)

\* The tables a save writes rows of
TablesOf(op) ==
    CASE op = "saveCompany" -> {"Company"}
      [] op = "saveProduct" -> {"Product"}
      [] op = "saveCustomer" -> {"Customer"}
      [] OTHER -> {"Quotation", "QuotationItem"}

\* The rows of a table that do not belong to the record with this id: the id
\* is in the first column, for an item the id of its quotation in the second
RowsOfOthers(wb, name, id) ==
    LET Other(row) == ~StrictEq(String(At(row, IF name = "QuotationItem" THEN 1 ELSE 0)), id)
    IN SelectSeq(DataRows(wb.Sheets[name]), Other)

\* C26: a save touches only its target rows: it leaves the rows of every
\* other table unchanged, and in the table (for saveQuotation: the two
\* tables) it writes, every row of another record, and every item row of
\* another quotation, unchanged and in the same relative order.
C26_SaveTouchesOnlyItsRows ==
    (lastOp.op \in SaveOps /\ lastOp.status = "ok") =>
        LET old == BookOfStorage(lastOp.before)
            new == BookOfStorage(localStorage)
        IN /\ \A n \in AllSheets \ TablesOf(lastOp.op) : new.Sheets[n] = old.Sheets[n]
           /\ \A n \in TablesOf(lastOp.op) :
                 RowsOfOthers(new, n, lastOp.arg.id) = RowsOfOthers(old, n, lastOp.arg.id)

\* C26 witness: saveQuotation(Q) with items on a workbook that held another
\* quotation and item rows of another quotation
C26_Witness ==
    /\ lastOp.op = "saveQuotation"
    /\ lastOp.status = "ok"
    /\ Len(lastOp.arg.items) > 0
    /\ LET old == BookOfStorage(lastOp.before)
       IN /\ Len(RowsOfOthers(old, "QuotationItem", lastOp.arg.id)) > 0
          /\ Len(RowsOfOthers(old, "Quotation", lastOp.arg.id)) > 0

-----------------------------------------------------------------------------
(* The selected items of the QuotationCreate page (SpecTotals). *)

\* A change to a quantity <= 0 or to a unit price < 0 leaves the list as it is
RejectedChangesLeaveItems ==
    \A k \in 1..Len(page.selectedItems) :
        /\ \A quantity \in {0 - 1, 0} :
              QuantityChanged(page.selectedItems, k, quantity) = page.selectedItems
        /\ UnitPriceChanged(page.selectedItems, k, 0 - 1) = page.selectedItems

\* Every selected item has quantity > 0 and the total of its quantity and
\* unit price, no two items are of the same product, and rejected changes
\* leave the list unchanged
SelectedItemsConsistent ==
    /\ \A k \in 1..Len(page.selectedItems) :
          LET item == page.selectedItems[k]
          IN /\ item.quantity > 0
             /\ item.totalPrice = ItemTotalPrice(item.quantity, item.unitPrice)
             /\ \A j \in 1..Len(page.selectedItems) :
                   page.selectedItems[j].productId = item.productId => j = k
    /\ RejectedChangesLeaveItems

\* C27: after any sequence of add, remove, quantity and unit price actions,
\* every selected item has quantity > 0, unitPrice >= 0 and totalPrice =
\* quantity * unitPrice * (1 - discountRate / 100), no two items have the
\* same productId, and a quantity change to a value <= 0 or a price change to
\* a value < 0 leaves the list unchanged.
C27_SelectedItemsValid ==
    /\ SelectedItemsConsistent
    /\ \A k \in 1..Len(page.selectedItems) : page.selectedItems[k].unitPrice >= 0

-----------------------------------------------------------------------------
(* Which company is the default (SpecCompanies). *)

\* Every company listed before the last operation and still listed has the
\* isDefault flag it had
FlagsKept ==
    LET old == getCompaniesOf(BookOfStorage(lastOp.before))
        new == getCompaniesOf(BookOfStorage(localStorage))
    IN \A i \in 1..Len(old), j \in 1..Len(new) :
          StrictEq(old[i].id, new[j].id) => new[j].isDefault = old[i].isDefault

\* Creating a company through the form keeps the flags
FlagsKeptByCreate ==
    (storeOp.op = "idle" /\ lastOp.op = "handleFormSubmit"
       /\ WithId(getCompaniesOf(BookOfStorage(lastOp.before)), lastOp.arg.id) = << >>)
    => FlagsKept

\* C28: which company is the default changes only through setDefaultCompany:
\* creating or editing a company through the company form, also editing the
\* default company itself, and every other operation that is not
\* setDefaultCompany, leave the isDefault flag of every existing company
\* unchanged.
C28_DefaultChangesOnlyThroughSetDefault ==
    (storeOp.op = "idle" /\ lastOp.op \in {"handleFormSubmit", "deleteCompany"}) => FlagsKept

-----------------------------------------------------------------------------
(* The two saves of handleSaveQuotation (SpecSave). *)

\* The table holds a row with this id
HasRow(wb, name, id) ==
    \E i \in 1..Len(DataRows(wb.Sheets[name])) :
        StrictEq(String(At(DataRows(wb.Sheets[name])[i], 0)), id)

\* The customer row, the quotation row of the last handleSaveQuotation
CustomerPersisted ==
    HasRow(BookOfStorage(localStorage), "Customer", CustomerOfPage(lastOp.arg).id)

QuotationPersisted ==
    HasRow(BookOfStorage(localStorage), "Quotation", QuotationOfPage(lastOp.arg).id)

\* A save that succeeds persists both rows, a save that is aborted persists
\* neither
BothOrNeitherUnlessPersistFails ==
    /\ (SaveClicked /\ lastOp.status = "ok") => (CustomerPersisted /\ QuotationPersisted)
    /\ (SaveClicked /\ lastOp.status = "aborted") => (~CustomerPersisted /\ ~QuotationPersisted)

\* C29: after handleSaveQuotation ends, either both the new Customer row and
\* the new Quotation row are persisted or neither is, also when the persist of
\* the quotation fails after the customer was saved.
C29_CustomerAndQuotationSavedTogether ==
    SaveClicked => (CustomerPersisted <=> QuotationPersisted)

-----------------------------------------------------------------------------
(* The selected company of the company store (SpecCurrent). *)

\* handleSelectCompany(company): setCurrentCompany(company), for a company of
\* the list the page shows
SetCurrentCompany ==
    /\ storeOp.op = "idle"
    /\ opCount < MaxOps
    /\ \E k \in 1..Len(companies) :
         /\ currentCompany' = companies[k]
         /\ lastOp' = Completed("setCurrentCompany", companies[k], "ok", << >>)
    /\ opCount' = opCount + 1
    /\ UNCHANGED <<localStorage, companies, products, storeOp, lastSaved>>
    /\ StoreUnchanged

NextCurrent ==
    \/ LoadCompanies
    \/ StoreSaveCompany
    \/ DeleteCompany
    \/ SetDefaultCompany
    \/ SetCurrentCompany
    \/ SaveNext
    \/ Reload

SpecCurrent == InitStore /\ [][NextCurrent]_vars

\* currentCompany is an entry of the loaded list, field for field
CurrentInList == \E k \in 1..Len(companies) : companies[k] = currentCompany

\* Right after setCurrentCompany, and after the load that selects a company
\* because none was selected, currentCompany is an entry of the list
CurrentInListWhenSelected ==
    /\ lastOp.op = "setCurrentCompany" => CurrentInList
    /\ (storeOp.op = "idle" /\ currentCompany # Null
          /\ getCompaniesOf(BookOfStorage(lastOp.before)) = << >>
          /\ lastOp.status = "ok" /\ lastOp.op = "saveCompany") => CurrentInList

\* C30: when every loadCompanies, saveCompany, deleteCompany,
\* setDefaultCompany and setCurrentCompany call has completed, currentCompany
\* is null or equal, field for field, to the entry of the loaded companies
\* list with the same id: it is never absent from the list and never holds
\* older values.
C30_CurrentCompanyIsOfTheList ==
    storeOp.op = "idle" => (currentCompany = Null \/ CurrentInList)

====
